---- MODULE Spec2Model ----
(***************************************************************************)
(* Model of the reflex2 habit tracker: the data layer's log list           *)
(* (src/data/DataContext.tsx), the Home screen statistics                  *)
(* (src/screens/LoginScreen.tsx, HomeScreen) and the Analytics screen      *)
(* (src/screens/AnalyticsScreen.tsx).                                      *)
(*                                                                         *)
(* Time.  The source measures time in milliseconds since the Unix epoch.   *)
(* The model measures it in hours since the Unix epoch, so that every      *)
(* instant fits TLC's integers; the source's constant 24*60*60*1000 is     *)
(* oneDay = 24 here.  A JavaScript Date is modelled by the instant it      *)
(* holds; its local getters and its (year, month, day) constructor are     *)
(* computed from the device time zone tz.                                  *)
(***************************************************************************)
EXTENDS Integers, Sequences, FiniteSets, TLC

VARIABLES
    tz,             \* the device time zone (fixed during a run)
    now,            \* the wall clock, Date.now()
    tick,           \* how many clock steps have passed since the start
    habits,         \* rows of the table habits (id -> name), and the DataProvider state loaded from it
    cues,           \* rows of the table cues
    locations,      \* rows of the table locations
    selectedHabits, \* rows of user_habits (habit ids in rowid order), and the state loaded from it
    selectedCues,   \* rows of user_cues
    selectedLocations, \* rows of user_locations
    userHabits,     \* rows of user_habits while calls of setSelectedHabits are in flight
    dbLogs,         \* rows of the SQLite table logs
    logs,           \* DataProvider state: logs (loadLogs order)
    selectedHabit,  \* HomeScreen state
    habitId,        \* LogScreen state: the chosen habit (NULL: none)
    didResist,      \* LogScreen state
    count,          \* LogScreen state
    showCountPicker, \* LogScreen state
    saving,         \* LogScreen state
    submitted,      \* the input of the addLog call that is awaited, by LogScreen.onSave while saving (<<>>: none)
    recentHabitIds, \* LogScreen state
    todayStartMs,   \* AnalyticsScreen: useMemo(() => startOfDayMs(Date.now()), []); NULL before the screen is mounted
    activeTab,      \* AnalyticsScreen state
    monthOffset,    \* AnalyticsScreen state
    dayModalOpen,   \* AnalyticsScreen state
    selectedDayMs,  \* AnalyticsScreen state
    calendarAt,     \* new Date() read by the last run of the calendar memo (NULL before mount)
    dataAt,         \* new Date() read by the last run of the data memo (NULL before mount)
    statsAt,        \* new Date() read by the last run of the HomeScreen stats memo
    busy,           \* ProfileScreen state: "" for null, or "export", "reset", "logout"
    alert,          \* the title of the Alert on display, "" when there is none
    exported,       \* the calls of exportData that have run, each with the records it was given
    credentials,    \* the text fields of the Login and Register screens
    user,           \* AuthProvider state: the email of the signed-in user, or NullStr
    sent,           \* the calls made to the remote auth provider, in order
    hasOnboarded,   \* DataProvider state and the stored onboarding flag
    calls,          \* the calls of setSelectedHabits in flight, each with its position
    pressed,        \* history: the presses of ManageList since it was last at rest
    cueId,          \* LogScreen state
    locationId,     \* LogScreen state
    intensity,      \* LogScreen state
    notes,          \* LogScreen state
    errorMsg        \* LogScreen state, "" for null

vars == <<tz, now, tick, habits, cues, locations, selectedHabits, selectedCues,
          selectedLocations, dbLogs, logs, selectedHabit, habitId, didResist,
          count, showCountPicker, saving, submitted, recentHabitIds, todayStartMs,
          activeTab, monthOffset, dayModalOpen, selectedDayMs, calendarAt,
          dataAt, statsAt, busy, alert, exported, credentials, user, sent,
          userHabits, hasOnboarded, calls, pressed, cueId, locationId, intensity,
          notes, errorMsg>>

\* the state outside the data layer, the Home, Analytics and Log screens
others == <<busy, alert, exported, credentials, user, sent, hasOnboarded, calls,
            pressed>>

\* the clock readings held by the memoized views
memos == <<calendarAt, dataAt, statsAt>>

\* the lists of the data layer other than the logs
lists == <<habits, cues, locations, selectedHabits, selectedCues, selectedLocations,
           userHabits>>

\* the cue, the location, the intensity, the notes and the message of the Log screen
fields == <<cueId, locationId, intensity, notes, errorMsg>>

\* the state of the Log screen
form == <<habitId, didResist, count, showCountPicker, saving, submitted, recentHabitIds,
          fields>>

\* null for a number (an id, a count, a timestamp) and null for a string
NULL == 0 - 1

NullStr == <<"null">>

\* the history of an execution that keeps none
NoHistory == [on |-> FALSE, n |-> 0, first |-> NULL, want |-> {}]

\* no press since the selection was base
NoPresses(h, base) ==
    IF h.on THEN [on |-> TRUE, n |-> 0, first |-> NULL,
                  want |-> {base[i] : i \in 1..Len(base)}]
    ELSE h

\* one more press of ManageList. A press made while no call is in flight
\* starts the history anew from the selection sel of that moment. The history
\* tells a first press of a row from a second press of another row; anything
\* else (the same row again, an added name, a third press) reads as n = 3.
\* want is the selection with every pressed row flipped.
Press(h, id, sel, atRest) ==
    LET start == IF atRest THEN NoPresses(h, sel) ELSE h
        Flip(set) == IF id \in set THEN set \ {id} ELSE set \cup {id}
    IN  IF ~h.on THEN h
        ELSE IF start.n = 0 /\ id # NULL
        THEN [start EXCEPT !.n = 1, !.first = id, !.want = Flip(@)]
        ELSE IF start.n = 1 /\ id # NULL /\ id # start.first
        THEN [start EXCEPT !.n = 2, !.want = Flip(@)]
        ELSE [start EXCEPT !.n = 3, !.first = NULL, !.want = {}]

\* useState("") of the three text fields
NoCredentials == [email |-> <<>>, password |-> <<>>, displayName |-> <<>>]

OthersInit ==
    /\ busy = ""
    /\ alert = ""
    /\ exported = <<>>
    /\ credentials = NoCredentials
    /\ user = NullStr
    /\ sent = <<>>
    /\ hasOnboarded = FALSE
    /\ calls = <<>>
    /\ pressed = NoHistory

(***************************************************************************)
(* Bounds of the model.                                                    *)
(***************************************************************************)
MaxTick == 3
MaxLogs == 3
MaxCalLogs == 2
MaxOffset == 13
MaxCalOffset == 1
MaxRankTick == 4
MaxRankLogs == 4
MaxDataTick == 1
MaxDataLogs == 2
MaxFilterTick == 2
MaxFilterLogs == 3
MaxSample == 1254
SampleStep == 7
MaxDateLogs == 1
MaxFormTick == 1
MaxFormLogs == 2
MaxOver == 2
MaxClampLogs == 1
MaxEmptyLogs == 1
MaxSent == 2
MaxAuthLogs == 1
MaxCalls == 2

(***************************************************************************)
(* Proleptic Gregorian calendar (what the JavaScript Date uses).           *)
(***************************************************************************)
IsLeap(y) == (y % 4 = 0 /\ y % 100 # 0) \/ y % 400 = 0

DaysInMonthOf(y, m) ==
    IF m = 2 THEN (IF IsLeap(y) THEN 29 ELSE 28)
    ELSE IF m \in {4, 6, 9, 11} THEN 30 ELSE 31

\* days from 1970-01-01 to the civil date y-m-d (m in 1..12), any d
DaysFromCivil(y, m, d) ==
    LET yy  == IF m <= 2 THEN y - 1 ELSE y
        era == yy \div 400
        yoe == yy - era * 400
        mp  == (m + 9) % 12
        doy == (153 * mp + 2) \div 5 + d - 1
        doe == yoe * 365 + yoe \div 4 - yoe \div 100 + doy
    IN  era * 146097 + doe - 719468

\* the civil date of day number z (days since 1970-01-01)
CivilFromDays(z) ==
    LET zz  == z + 719468
        era == zz \div 146097
        doe == zz - era * 146097
        yoe == (doe - doe \div 1460 + doe \div 36524 - doe \div 146096) \div 365
        doy == doe - (365 * yoe + yoe \div 4 - yoe \div 100)
        mp  == (5 * doy + 2) \div 153
        d   == doy - (153 * mp + 2) \div 5 + 1
        m   == IF mp < 10 THEN mp + 3 ELSE mp - 9
        y   == yoe + era * 400 + (IF m <= 2 THEN 1 ELSE 0)
    IN  [y |-> y, m |-> m, d |-> d]

(***************************************************************************)
(* The device time zone.  "UTC" has no daylight saving time.  "Berlin" is  *)
(* UTC+2 from 2024-03-31 01:00 UTC until 2024-10-27 01:00 UTC and UTC+1    *)
(* before and after (valid from 2023-10-29 to 2025-03-30), so local Sunday *)
(* 2024-03-31 is 23 hours long and local Sunday 2024-10-27 is 25.          *)
(***************************************************************************)
HoursPerDay == 24

TimeZones == {"UTC", "Berlin"}

DstStartUtc == 19813 * HoursPerDay + 1

DstEndUtc == 20023 * HoursPerDay + 1

StdOffset(z) == IF z = "Berlin" THEN 1 ELSE 0

DstOffset(z) == IF z = "Berlin" THEN 2 ELSE 0

\* offset of local time from UTC at the instant t
TzOffset(z, t) ==
    IF t >= DstStartUtc /\ t < DstEndUtc THEN DstOffset(z) ELSE StdOffset(z)

\* the instant of a local wall-clock reading lh (hours since the local epoch);
\* a reading inside the skipped hour or the repeated hour is read with the
\* offset before the change
LocalToUtc(z, lh) ==
    LET b == lh - DstOffset(z)
    IN  IF TzOffset(z, b) = DstOffset(z) THEN b ELSE lh - StdOffset(z)

(***************************************************************************)
(* JavaScript Date: local getters and the local (year, month, day)         *)
(* constructor, which normalises a month or a day out of range.            *)
(***************************************************************************)
LocalHours(t) == t + TzOffset(tz, t)

LocalDayNumber(t) == LocalHours(t) \div HoursPerDay

\* the local calendar date of the instant t
LocalDate(t) == CivilFromDays(LocalDayNumber(t))

getFullYear(t) == LocalDate(t).y

getMonth(t) == LocalDate(t).m - 1

getDate(t) == LocalDate(t).d

\* 0 = Sunday
getDay(t) == (LocalDayNumber(t) + 4) % 7

getHours(t) == LocalHours(t) % HoursPerDay

\* new Date(y, m, d) with m zero-based
NewDate(y, m, d) ==
    LET ym == y * 12 + m
        yy == ym \div 12
        mm == ym % 12
    IN  LocalToUtc(tz, (DaysFromCivil(yy, mm + 1, 1) + d - 1) * HoursPerDay)

(***************************************************************************)
(* Strings are sequences of characters.                                    *)
(***************************************************************************)
DigitChars == <<"0", "1", "2", "3", "4", "5", "6", "7", "8", "9">>

RECURSIVE Digits(_)
Digits(n) ==
    IF n < 10 THEN <<DigitChars[n + 1]>>
    ELSE Digits(n \div 10) \o <<DigitChars[(n % 10) + 1]>>

\* `${n}` for an integer n
NumToStr(n) == IF n < 0 THEN <<"-">> \o Digits(0 - n) ELSE Digits(n)

RECURSIVE SplitFrom(_, _, _, _)
SplitFrom(s, i, cur, sep) ==
    IF i > Len(s) THEN <<cur>>
    ELSE IF s[i] = sep THEN <<cur>> \o SplitFrom(s, i + 1, <<>>, sep)
    ELSE SplitFrom(s, i + 1, Append(cur, s[i]), sep)

\* s.split(sep)
Split(s, sep) == SplitFrom(s, 1, <<>>, sep)

RECURSIVE DigitsValue(_, _)
DigitsValue(s, acc) ==
    IF s = <<>> THEN acc
    ELSE DigitsValue(Tail(s),
                     acc * 10 + (CHOOSE k \in 0..9 : DigitChars[k + 1] = Head(s)))

\* Number(s) for a string of decimal digits ("" is 0)
ToNumber(s) == DigitsValue(s, 0)

RECURSIVE TrimLeft(_)
TrimLeft(s) ==
    IF s # <<>> /\ Head(s) = " " THEN TrimLeft(Tail(s)) ELSE s

RECURSIVE TrimRight(_)
TrimRight(s) ==
    IF s # <<>> /\ s[Len(s)] = " " THEN TrimRight(SubSeq(s, 1, Len(s) - 1)) ELSE s

\* (s ?? "").trim()
Trim(s) == IF s = NullStr THEN <<>> ELSE TrimRight(TrimLeft(s))

\* String.toLowerCase on the letters the model uses
UpperChars == <<"A", "B", "O">>

LowerChars == <<"a", "b", "o">>

toLowerCase(s) ==
    [i \in 1..Len(s) |->
        IF \E k \in 1..Len(UpperChars) : UpperChars[k] = s[i]
        THEN LowerChars[CHOOSE k \in 1..Len(UpperChars) : UpperChars[k] = s[i]]
        ELSE s[i]]

(***************************************************************************)
(* The data layer (DataContext.tsx).  The provider's mount effect drops    *)
(* and re-creates every table before the first refresh, so a run starts    *)
(* with an empty logs table; rows are added by addLog only.                *)
(***************************************************************************)
\* the seeded rows of the habits, cues and locations tables: id -> name
HabitNames == <<<<"A">>, <<"B">>>>

CueNames == <<<<"c", "1">>, <<"c", "2">>, <<"c", "3">>, <<"c", "4">>>>

LocationNames == <<<<"p", "1">>, <<"p", "2">>, <<"p", "3">>, <<"p", "4">>>>

NameOf(table, id) == IF id = NULL THEN NullStr ELSE table[id]

\* one row of the SELECT in loadLogs: logs JOIN habits LEFT JOIN cues, locations
LogEntry(row) ==
    [id           |-> row.id,
     habitName    |-> NameOf(habits, row.habitId),
     cueName      |-> NameOf(cues, row.cueId),
     locationName |-> NameOf(locations, row.locationId),
     intensity    |-> row.intensity,
     count        |-> row.count,
     didResist    |-> row.didResist,
     createdAt    |-> row.createdAt]

\* ORDER BY l.createdAt DESC: insert e into a list already in that order
RECURSIVE InsertDesc(_, _)
InsertDesc(sorted, e) ==
    IF sorted = <<>> THEN <<e>>
    ELSE IF e.createdAt > Head(sorted).createdAt THEN <<e>> \o sorted
    ELSE <<Head(sorted)>> \o InsertDesc(Tail(sorted), e)

RECURSIVE OrderByCreatedAtDesc(_)
OrderByCreatedAtDesc(rows) ==
    IF rows = <<>> THEN <<>>
    ELSE InsertDesc(OrderByCreatedAtDesc(SubSeq(rows, 1, Len(rows) - 1)),
                    rows[Len(rows)])

loadLogs(table) ==
    OrderByCreatedAtDesc([i \in 1..Len(table) |-> LogEntry(table[i])])

(***************************************************************************)
(* Sequence helpers that stand for the JavaScript array methods.           *)
(***************************************************************************)
Contains(s, x) == \E i \in 1..Len(s) : s[i] = x

\* Set.add on an insertion-ordered Set
SetAdd(s, x) == IF Contains(s, x) THEN s ELSE Append(s, x)

RECURSIVE InsertAsc(_, _)
InsertAsc(sorted, x) ==
    IF sorted = <<>> THEN <<x>>
    ELSE IF x < Head(sorted) THEN <<x>> \o sorted
    ELSE <<Head(sorted)>> \o InsertAsc(Tail(sorted), x)

\* arr.sort((a, b) => a - b)
RECURSIVE SortAsc(_)
SortAsc(s) ==
    IF s = <<>> THEN <<>>
    ELSE InsertAsc(SortAsc(SubSeq(s, 1, Len(s) - 1)), s[Len(s)])

(***************************************************************************)
(* Date utilities (AnalyticsScreen.tsx 5-41; the Home screen has the same  *)
(* functions taking a Date).                                               *)
(***************************************************************************)
startOfDayMs(ms) ==
    LET d == LocalDate(ms) IN NewDate(d.y, d.m - 1, d.d)

endOfDayMs(ms) ==
    LET d == LocalDate(ms) IN NewDate(d.y, d.m - 1, d.d + 1)

\* a variant whose week begins on the Sunday
startOfWeekMsFromSunday(d) ==
    LET sunday == NewDate(getFullYear(d), getMonth(d), getDate(d) - getDay(d))
    IN  NewDate(getFullYear(sunday), getMonth(sunday), getDate(sunday))

startOfWeekMs(d) ==
    LET day          == getDay(d)
        diffToMonday == (day + 6) % 7
        monday       == NewDate(getFullYear(d), getMonth(d), getDate(d) - diffToMonday)
    IN  NewDate(getFullYear(monday), getMonth(monday), getDate(monday))

startOfMonthMs(d) == NewDate(getFullYear(d), getMonth(d), 1)

endOfMonthMs(d) == NewDate(getFullYear(d), getMonth(d) + 1, 1)

\* a variant without the separators
dayKeyNoSeparator(ms) ==
    LET dt == LocalDate(ms)
    IN  NumToStr(dt.y) \o NumToStr((dt.m - 1) + 1) \o NumToStr(dt.d)

dayKey(ms) ==
    LET dt == LocalDate(ms)
    IN  NumToStr(dt.y) \o <<"-">> \o NumToStr((dt.m - 1) + 1) \o <<"-">> \o NumToStr(dt.d)

(***************************************************************************)
(* HomeScreen.stats (LoginScreen.tsx 156-227).                             *)
(***************************************************************************)
oneDay == 24

logsForStats(ls, sel) ==
    IF sel = NullStr THEN ls
    ELSE LET Match(l) == l.habitName = sel IN SelectSeq(ls, Match)

RECURSIVE resistDays(_)
resistDays(ls) ==
    IF ls = <<>> THEN <<>>
    ELSE LET rest == resistDays(SubSeq(ls, 1, Len(ls) - 1))
             l    == ls[Len(ls)]
         IN  IF l.didResist = 1 THEN SetAdd(rest, dayKey(l.createdAt)) ELSE rest

hasResistOnDay(days, d) == Contains(days, dayKey(d))

\* a variant that steps the cursor back by a fixed 24 hours
CursorBackFixedDay(cursor) == cursor - oneDay

\* cursor.setDate(cursor.getDate() - 1)
CursorBack(cursor) ==
    NewDate(getFullYear(cursor), getMonth(cursor), getDate(cursor) - 1)

RECURSIVE StreakFrom(_, _, _)
StreakFrom(days, cursor, n) ==
    IF hasResistOnDay(days, cursor)
    THEN StreakFrom(days, CursorBack(cursor), n + 1)
    ELSE n

\* a variant that starts counting at yesterday
currentStreakFromYesterday(ls, t) ==
    StreakFrom(resistDays(ls),
               CursorBack(NewDate(getFullYear(t), getMonth(t), getDate(t))), 0)

currentStreak(ls, t) ==
    StreakFrom(resistDays(ls), NewDate(getFullYear(t), getMonth(t), getDate(t)), 0)

\* the key parsed back into a local midnight
KeyToDate(k) ==
    LET p == Split(k, "-")
    IN  NewDate(ToNumber(p[1]), ToNumber(p[2]) - 1, ToNumber(p[3]))

resistDates(ls) ==
    LET days == resistDays(ls)
    IN  SortAsc([i \in 1..Len(days) |-> KeyToDate(days[i])])

\* the loop of lines 213-217 from index i on, with the current run and best
RECURSIVE BestLoop(_, _, _, _)
BestLoop(dates, i, run, best) ==
    IF i > Len(dates) THEN best
    ELSE LET r == IF i = 1 THEN 1
                  ELSE IF dates[i] - dates[i - 1] = oneDay THEN run + 1 ELSE 1
         IN  BestLoop(dates, i + 1, r, IF r > best THEN r ELSE best)

bestStreak(ls) == BestLoop(resistDates(ls), 1, 0, 0)

\* arr.reduce((acc, l) => acc + (l.didResist === 1 ? 1 : 0), 0)
CountResists(arr) ==
    LET Resisted(l) == l.didResist = 1 IN Len(SelectSeq(arr, Resisted))

\* the body of the stats memo, with t the value of new Date()
stats(ls, t) ==
    LET todayStart    == startOfDayMs(t)
        tomorrowStart == todayStart + oneDay
        weekStart     == startOfWeekMs(t)
        Todays(l)     == l.createdAt >= todayStart /\ l.createdAt < tomorrowStart
        InWeek(l)     == l.createdAt >= weekStart
    IN  [todayLogs     |-> Len(SelectSeq(ls, Todays)),
         weekLogs      |-> Len(SelectSeq(ls, InWeek)),
         todayResists  |-> CountResists(SelectSeq(ls, Todays)),
         weekResists   |-> CountResists(SelectSeq(ls, InWeek)),
         currentStreak |-> currentStreak(ls, t),
         bestStreak    |-> bestStreak(ls)]

HomeStats == stats(logsForStats(logs, selectedHabit), now)

(***************************************************************************)
(* JavaScript Map with insertion order: a sequence of [k, v] entries.      *)
(***************************************************************************)
MapHas(m, k) == \E i \in 1..Len(m) : m[i].k = k

\* a variant without the default
MapGetOrNull(m, k, dflt) ==
    IF MapHas(m, k) THEN m[CHOOSE i \in 1..Len(m) : m[i].k = k].v ELSE NULL

\* m.get(k) ?? dflt
MapGet(m, k, dflt) ==
    IF MapHas(m, k) THEN m[CHOOSE i \in 1..Len(m) : m[i].k = k].v ELSE dflt

\* m.set(k, (m.get(k) ?? 0) + 1)
MapInc(m, k) ==
    IF MapHas(m, k)
    THEN [i \in 1..Len(m) |-> IF m[i].k = k THEN [k |-> k, v |-> m[i].v + 1] ELSE m[i]]
    ELSE Append(m, [k |-> k, v |-> 1])

(***************************************************************************)
(* AnalyticsScreen (AnalyticsScreen.tsx 74-255).                           *)
(***************************************************************************)
Overall == <<"O", "v", "e", "r", "a", "l", "l">>

hasAnyLogs(ls) == Len(ls) > 0

RECURSIVE MinCreatedAt(_, _, _)
MinCreatedAt(ls, i, min) ==
    IF i > Len(ls) THEN min
    ELSE MinCreatedAt(ls, i + 1, IF ls[i].createdAt < min THEN ls[i].createdAt ELSE min)

\* a variant without the fallback to today when there is no record
installDayStartMsNoFallback(ls, today) ==
    IF Len(ls) = 0 THEN 0
    ELSE startOfDayMs(MinCreatedAt(ls, 2, ls[1].createdAt))

installDayStartMs(ls, today) ==
    IF Len(ls) = 0 THEN today
    ELSE startOfDayMs(MinCreatedAt(ls, 2, ls[1].createdAt))

\* code units of the characters the model uses, in increasing order
Alphabet ==
    <<" ", "-", "0", "1", "2", "3", "4", "5", "6", "7", "8", "9",
      "A", "B", "O", "a", "c", "e", "l", "p", "r", "v">>

CharCode(c) == CHOOSE i \in 1..Len(Alphabet) : Alphabet[i] = c

\* a < b for strings, as Array.prototype.sort compares them by default
RECURSIVE StrLess(_, _)
StrLess(a, b) ==
    IF b = <<>> THEN FALSE
    ELSE IF a = <<>> THEN TRUE
    ELSE IF Head(a) = Head(b) THEN StrLess(Tail(a), Tail(b))
    ELSE CharCode(Head(a)) < CharCode(Head(b))

RECURSIVE InsertStr(_, _)
InsertStr(sorted, x) ==
    IF sorted = <<>> THEN <<x>>
    ELSE IF StrLess(x, Head(sorted)) THEN <<x>> \o sorted
    ELSE <<Head(sorted)>> \o InsertStr(Tail(sorted), x)

RECURSIVE SortStr(_)
SortStr(s) ==
    IF s = <<>> THEN <<>>
    ELSE InsertStr(SortStr(SubSeq(s, 1, Len(s) - 1)), s[Len(s)])

RECURSIVE HabitNameSet(_)
HabitNameSet(ls) ==
    IF ls = <<>> THEN <<>>
    ELSE LET rest == HabitNameSet(SubSeq(ls, 1, Len(ls) - 1))
             h    == Trim(ls[Len(ls)].habitName)
         IN  IF h # <<>> THEN SetAdd(rest, h) ELSE rest

habitTabs(ls) == <<Overall>> \o SortStr(HabitNameSet(ls))

\* a variant that compares the names without regard to case
filteredLogsIgnoreCase(ls, tab) ==
    IF tab = Overall THEN ls
    ELSE LET Match(l) == toLowerCase(Trim(l.habitName)) = toLowerCase(tab)
         IN  SelectSeq(ls, Match)

filteredLogs(ls, tab) ==
    IF tab = Overall THEN ls
    ELSE LET Match(l) == Trim(l.habitName) = tab IN SelectSeq(ls, Match)

\* the first day of the displayed month: the clock's month plus the offset
\* a variant that keeps the month index inside the year of the base date
shownMonthSameYear(base, offset) ==
    NewDate(getFullYear(base), (getMonth(base) + offset) % 12, 1)

shownMonth(base, offset) == NewDate(getFullYear(base), getMonth(base) + offset, 1)

\* a variant that counts resisted records too
RECURSIVE giveInCountsAnyOutcome(_, _, _)
giveInCountsAnyOutcome(fl, monthStart, monthEnd) ==
    IF fl = <<>> THEN <<>>
    ELSE LET rest == giveInCountsAnyOutcome(SubSeq(fl, 1, Len(fl) - 1), monthStart, monthEnd)
             l    == fl[Len(fl)]
         IN  IF l.createdAt < monthStart \/ l.createdAt >= monthEnd THEN rest
             ELSE MapInc(rest, dayKey(l.createdAt))

RECURSIVE giveInCounts(_, _, _)
giveInCounts(fl, monthStart, monthEnd) ==
    IF fl = <<>> THEN <<>>
    ELSE LET rest == giveInCounts(SubSeq(fl, 1, Len(fl) - 1), monthStart, monthEnd)
             l    == fl[Len(fl)]
         IN  IF l.createdAt < monthStart \/ l.createdAt >= monthEnd THEN rest
             ELSE IF l.didResist = 1 THEN rest
             ELSE MapInc(rest, dayKey(l.createdAt))

\* a variant that asks for day 0 of the shown month itself
daysInMonthOfPrevious(shown) == getDate(NewDate(getFullYear(shown), getMonth(shown), 0))

\* new Date(y, m + 1, 0).getDate()
daysInMonth(shown) == getDate(NewDate(getFullYear(shown), getMonth(shown) + 1, 0))

\* a variant that keeps the Sunday-first index
mondayIndexSundayFirst(shown) ==
    getDay(NewDate(getFullYear(shown), getMonth(shown), 1))

mondayIndex(shown) ==
    LET firstDay == NewDate(getFullYear(shown), getMonth(shown), 1)
        jsDay    == getDay(firstDay)
    IN  (jsDay + 6) % 7

BlankCell(kind, sy, sm, i) ==
    [key        |-> <<kind, sy, sm, i>>,
     label      |-> <<>>,
     count      |-> NULL,
     isToday    |-> FALSE,
     dayStartMs |-> NULL,
     isInactive |-> TRUE]

\* the body of the loop of lines 152-174; (sy, sm) are shown's year and month
DayCell(sy, sm, d, counts, todayKeyStr, today, install, hasAny) ==
    LET ms          == NewDate(sy, sm, d)
        dayStart    == startOfDayMs(ms)
        k           == dayKey(dayStart)
        isToday     == k = todayKeyStr
        isFuture    == dayStart > today
        isBeforeInstall == dayStart < install
        treatTodayAsActiveOnFirstOpen == ~hasAny /\ isToday
    IN  [key        |-> k,
         label      |-> NumToStr(d),
         count      |-> MapGet(counts, k, 0),
         isToday    |-> isToday,
         dayStartMs |-> dayStart,
         isInactive |-> isFuture \/ (isBeforeInstall /\ ~treatTodayAsActiveOnFirstOpen)]

\* while (cells.length % 7 !== 0) cells.push(blank)
RECURSIVE PadCells(_, _, _)
PadCells(cells, sy, sm) ==
    IF Len(cells) % 7 = 0 THEN cells
    ELSE PadCells(Append(cells, BlankCell("blank-end", sy, sm, Len(cells))), sy, sm)

calendarCells(fl, offset, install, today, hasAny, base) ==
    LET shown  == shownMonth(base, offset)
        sy     == getFullYear(shown)
        sm     == getMonth(shown)
        counts == giveInCounts(fl, startOfMonthMs(shown), endOfMonthMs(shown))
        todayKeyStr == dayKey(today)
        lead   == [i \in 1..mondayIndex(shown) |-> BlankCell("blank", sy, sm, i - 1)]
        days   == [d \in 1..daysInMonth(shown) |->
                      DayCell(sy, sm, d, counts, todayKeyStr, today, install, hasAny)]
    IN  PadCells(lead \o days, sy, sm)

\* for (i = 0; i < cells.length; i += 7) weeks.push(cells.slice(i, i + 7))
RECURSIVE calendarWeeks(_)
calendarWeeks(cells) ==
    IF cells = <<>> THEN <<>>
    ELSE LET n == IF Len(cells) < 7 THEN Len(cells) ELSE 7
         IN  <<SubSeq(cells, 1, n)>> \o calendarWeeks(SubSeq(cells, n + 1, Len(cells)))

\* b.createdAt - a.createdAt, stable
RECURSIVE InsertByCreatedAtDesc(_, _)
InsertByCreatedAtDesc(sorted, e) ==
    IF sorted = <<>> THEN <<e>>
    ELSE IF e.createdAt > Head(sorted).createdAt THEN <<e>> \o sorted
    ELSE <<Head(sorted)>> \o InsertByCreatedAtDesc(Tail(sorted), e)

RECURSIVE SortByCreatedAtDesc(_)
SortByCreatedAtDesc(s) ==
    IF s = <<>> THEN <<>>
    ELSE InsertByCreatedAtDesc(SortByCreatedAtDesc(SubSeq(s, 1, Len(s) - 1)), s[Len(s)])

\* a variant without the end of the day
selectedDayLogsFromDay(fl, sel) ==
    IF sel = NULL THEN <<>>
    ELSE LET dayStart == startOfDayMs(sel)
             InDay(l) == l.createdAt >= dayStart
         IN  SortByCreatedAtDesc(SelectSeq(fl, InDay))

selectedDayLogs(fl, sel) ==
    IF sel = NULL THEN <<>>
    ELSE LET dayStart == startOfDayMs(sel)
             dayEnd   == endOfDayMs(sel)
             InDay(l) == l.createdAt >= dayStart /\ l.createdAt < dayEnd
         IN  SortByCreatedAtDesc(SelectSeq(fl, InDay))

TopCount == 3

\* a variant that puts an entry before the entries of equal count
RECURSIVE InsertByCountDescBeforeTies(_, _)
InsertByCountDescBeforeTies(sorted, e) ==
    IF sorted = <<>> THEN <<e>>
    ELSE IF e.v >= Head(sorted).v THEN <<e>> \o sorted
    ELSE <<Head(sorted)>> \o InsertByCountDescBeforeTies(Tail(sorted), e)

\* entries sorted by count descending (stable)
RECURSIVE InsertByCountDesc(_, _)
InsertByCountDesc(sorted, e) ==
    IF sorted = <<>> THEN <<e>>
    ELSE IF e.v > Head(sorted).v THEN <<e>> \o sorted
    ELSE <<Head(sorted)>> \o InsertByCountDesc(Tail(sorted), e)

RECURSIVE SortByCountDesc(_)
SortByCountDesc(m) ==
    IF m = <<>> THEN <<>>
    ELSE InsertByCountDesc(SortByCountDesc(SubSeq(m, 1, Len(m) - 1)), m[Len(m)])

\* a variant without slice(0, 3)
topNUncut(m) ==
    LET sorted == SortByCountDesc(m)
    IN  [i \in 1..Len(sorted) |-> [name |-> sorted[i].k, count |-> sorted[i].v]]

topN(m) ==
    LET sorted == SortByCountDesc(m)
        n      == IF Len(sorted) < TopCount THEN Len(sorted) ELSE TopCount
    IN  [i \in 1..n |-> [name |-> sorted[i].k, count |-> sorted[i].v]]

weekLogs(fl, t) ==
    LET weekStart == startOfWeekMs(t)
        InWeek(l) == l.createdAt >= weekStart
    IN  SelectSeq(fl, InWeek)

\* a variant that also counts the records without a value, under the empty name
RECURSIVE fieldCountsKeepEmpty(_, _)
fieldCountsKeepEmpty(wl, field) ==
    IF wl = <<>> THEN <<>>
    ELSE MapInc(fieldCountsKeepEmpty(SubSeq(wl, 1, Len(wl) - 1), field),
                Trim(wl[Len(wl)][field]))

\* the counting loop of lines 240-248 for one field
RECURSIVE fieldCounts(_, _)
fieldCounts(wl, field) ==
    IF wl = <<>> THEN <<>>
    ELSE LET rest == fieldCounts(SubSeq(wl, 1, Len(wl) - 1), field)
             name == Trim(wl[Len(wl)][field])
         IN  IF name # <<>> THEN MapInc(rest, name) ELSE rest

data(fl, t) ==
    LET wl == weekLogs(fl, t)
    IN  [topCues      |-> topN(fieldCounts(wl, "cueName")),
         topLocations |-> topN(fieldCounts(wl, "locationName")),
         topHabits    |-> topN(fieldCounts(wl, "habitName"))]

\* the earlier HomeScreen: cueCounts over all records, then the first entry
\* with the strictly greatest count
RECURSIVE TopCueLoop(_, _, _)
TopCueLoop(m, i, top) ==
    IF i > Len(m) THEN top
    ELSE TopCueLoop(m, i + 1,
                    IF m[i].v > top.topCueCount
                    THEN [topCue |-> m[i].k, topCueCount |-> m[i].v]
                    ELSE top)

topCue(ls) ==
    TopCueLoop(fieldCounts(ls, "cueName"), 1, [topCue |-> NullStr, topCueCount |-> 0])

\* a variant that wraps every cell that has a date
cellPressableAnyDay(c) == c.dayStartMs # NULL

\* a cell is wrapped in a Pressable (lines 512-521)
cellPressable(c) == ~(c.isInactive \/ c.dayStartMs = NULL)

(***************************************************************************)
(* The views of the current state.                                         *)
(***************************************************************************)
mounted == todayStartMs # NULL

FilteredLogs == filteredLogs(logs, activeTab)

Cells ==
    calendarCells(FilteredLogs, monthOffset, installDayStartMs(logs, todayStartMs),
                  todayStartMs, hasAnyLogs(logs), now)

Weeks == calendarWeeks(Cells)

SelectedDayLogs == selectedDayLogs(FilteredLogs, selectedDayMs)

Data == data(FilteredLogs, now)

(***************************************************************************)
(* The state machine.                                                      *)
(***************************************************************************)
\* the clock is sampled every half day, starting Saturday 2024-03-30 12:00 UTC
StepHours == HoursPerDay \div 2

ClockStart == 19812 * HoursPerDay + StepHours

\* the initial state of the Log screen
FieldDefaults ==
    /\ cueId = NULL
    /\ locationId = NULL
    /\ intensity = NULL
    /\ notes = <<>>
    /\ errorMsg = ""

FormDefaults ==
    /\ habitId = NULL
    /\ didResist = FALSE
    /\ count = 1
    /\ showCountPicker = FALSE
    /\ saving = FALSE
    /\ submitted = <<>>
    /\ recentHabitIds = <<>>
    /\ FieldDefaults

\* the tables after resetDbForDev, and the state that refresh loads from them
Seeded ==
    /\ habits = HabitNames
    /\ cues = CueNames
    /\ locations = LocationNames
    /\ selectedHabits = <<>>
    /\ selectedCues = <<>>
    /\ selectedLocations = <<>>
    /\ userHabits = <<>>

Init ==
    /\ tz \in TimeZones
    /\ now = ClockStart
    /\ tick = 0
    /\ OthersInit
    /\ Seeded
    /\ dbLogs = <<>>
    /\ logs = <<>>
    /\ selectedHabit = NullStr
    /\ todayStartMs = NULL
    /\ calendarAt = NULL
    /\ dataAt = NULL
    /\ statsAt = now
    /\ activeTab = Overall
    /\ monthOffset = 0
    /\ FormDefaults
    /\ dayModalOpen = FALSE
    /\ selectedDayMs = NULL

\* time passes
Tick(limit) ==
    /\ tick < limit
    /\ tick' = tick + 1
    /\ now' = now + StepHours
    /\ UNCHANGED <<others, memos, lists, form, tz, dbLogs, logs, selectedHabit, todayStartMs, activeTab,
                   monthOffset, dayModalOpen, selectedDayMs>>

\* a variant that stores the number as it is given
Unclamped(lo, hi, x) == x

\* Math.min(hi, Math.max(lo, Math.round(x))) for an integer x
Clamp(lo, hi, x) == IF x < lo THEN lo ELSE IF x > hi THEN hi ELSE x

\* an input of addLog without intensity, count and notes
LogInput(h, c, l, r) ==
    [habitId |-> h, cueId |-> c, locationId |-> l, didResist |-> r]

\* DataContext.addLog: INSERT with createdAt = Date.now(), then setLogs(loadLogs()):
\* what it does to the table and to the state of DataProvider.
\* An optional field of the input that is undefined is a field the record lacks.
\* The clock has millisecond resolution, so two inserts never share a timestamp.
\* setLogs puts a new array in the state: the memos that depend on logs run
\* again in the screens that are mounted
LogsReplaced ==
    /\ statsAt' = now
    /\ calendarAt' = IF mounted THEN now ELSE calendarAt
    /\ dataAt' = IF mounted THEN now ELSE dataAt

\* addLog up to its INSERT
InsertRow(cap, input) ==
    /\ Len(dbLogs) < cap
    /\ \A i \in 1..Len(dbLogs) : dbLogs[i].createdAt < now
    /\ LET intensityOut == IF "intensity" \in DOMAIN input
                           THEN Clamp(1, 10, input.intensity) ELSE NULL
           countIn   == IF "count" \in DOMAIN input THEN input.count ELSE 1
           countOut  == Clamp(0, 10, countIn)
       IN  dbLogs' = Append(dbLogs,
                            [id         |-> Len(dbLogs) + 1,
                             habitId    |-> input.habitId,
                             cueId      |-> input.cueId,
                             locationId |-> input.locationId,
                             intensity  |-> intensityOut,
                             count      |-> countOut,
                             didResist  |-> IF input.didResist THEN 1 ELSE 0,
                             createdAt  |-> now])

InsertLog(cap, input) ==
    /\ InsertRow(cap, input)
    /\ logs' = loadLogs(dbLogs')
    /\ LogsReplaced

\* addLog called on its own
addLog(cap, input) ==
    /\ InsertLog(cap, input)
    /\ UNCHANGED <<others, lists, form, tz, now, tick, selectedHabit, todayStartMs, activeTab,
                   monthOffset, dayModalOpen, selectedDayMs>>

\* HomeScreen.habitOptions
habitOptions(ls) == SortStr(HabitNameSet(ls))

\* HomeScreen: the "All" chip and the habit chips
setSelectedHabit ==
    /\ \E h \in {NullStr} \cup {habitOptions(logs)[i] : i \in 1..Len(habitOptions(logs))} :
          /\ h # selectedHabit
          /\ selectedHabit' = h
    /\ statsAt' = now
    /\ UNCHANGED <<others, calendarAt, dataAt, lists, form, tz, now, tick, dbLogs, logs, todayStartMs, activeTab,
                   monthOffset, dayModalOpen, selectedDayMs>>

\* the first render of AnalyticsScreen: its state hooks and todayStartMs
MountAnalytics ==
    /\ ~mounted
    /\ todayStartMs' = startOfDayMs(now)
    /\ activeTab' = Overall
    /\ monthOffset' = 0
    /\ dayModalOpen' = FALSE
    /\ selectedDayMs' = NULL
    /\ calendarAt' = now
    /\ dataAt' = now
    /\ UNCHANGED <<others, statsAt, lists, form, tz, now, tick, dbLogs, logs, selectedHabit>>

setActiveTab ==
    /\ mounted
    /\ ~dayModalOpen
    /\ \E i \in 1..Len(habitTabs(logs)) :
          /\ habitTabs(logs)[i] # activeTab
          /\ activeTab' = habitTabs(logs)[i]
    /\ calendarAt' = now
    /\ dataAt' = now
    /\ UNCHANGED <<others, statsAt, lists, form, tz, now, tick, dbLogs, logs, selectedHabit, todayStartMs,
                   monthOffset, dayModalOpen, selectedDayMs>>

\* setMonthOffset((v) => v - 1)
PrevMonth(limit) ==
    /\ mounted
    /\ ~dayModalOpen
    /\ monthOffset > 0 - limit
    /\ monthOffset' = monthOffset - 1
    /\ calendarAt' = now
    /\ UNCHANGED <<others, dataAt, statsAt, lists, form, tz, now, tick, dbLogs, logs, selectedHabit, todayStartMs,
                   activeTab, dayModalOpen, selectedDayMs>>

\* setMonthOffset((v) => v + 1)
NextMonth(limit) ==
    /\ mounted
    /\ ~dayModalOpen
    /\ monthOffset < limit
    /\ monthOffset' = monthOffset + 1
    /\ calendarAt' = now
    /\ UNCHANGED <<others, dataAt, statsAt, lists, form, tz, now, tick, dbLogs, logs, selectedHabit, todayStartMs,
                   activeTab, dayModalOpen, selectedDayMs>>

\* the argument of openDayModal for each Pressable of the grid
PressableDays(cells) ==
    {cells[i].dayStartMs : i \in {j \in 1..Len(cells) : cellPressable(cells[j])}}

\* a press on a cell of the grid that is wrapped in a Pressable
openDayModal ==
    /\ mounted
    /\ ~dayModalOpen
    /\ \E ms \in PressableDays(Cells) : selectedDayMs' = ms
    /\ dayModalOpen' = TRUE
    /\ UNCHANGED <<others, memos, lists, form, tz, now, tick, dbLogs, logs, selectedHabit, todayStartMs,
                   activeTab, monthOffset>>

\* the close buttons and onRequestClose of the modal
closeDayModal ==
    /\ dayModalOpen
    /\ dayModalOpen' = FALSE
    /\ UNCHANGED <<others, memos, lists, form, tz, now, tick, dbLogs, logs, selectedHabit, todayStartMs,
                   activeTab, monthOffset, selectedDayMs>>

HabitIds == 1..Len(habits)

\* the Log screen saves a habit with or without having resisted
SaveLog(cap) ==
    \E h \in HabitIds, r \in BOOLEAN : addLog(cap, LogInput(h, NULL, NULL, r))

\* Array.from(new Set(ids)): the first occurrence of each id, in order
RECURSIVE UniqueIds(_)
UniqueIds(ids) ==
    IF ids = <<>> THEN <<>>
    ELSE SetAdd(UniqueIds(SubSeq(ids, 1, Len(ids) - 1)), ids[Len(ids)])

\* LogScreen.applyRecentOrdering on the ids of the items
applyRecentOrdering(items, recentIds) ==
    IF items = <<>> THEN items
    ELSE LET InItems(id) == Contains(items, id)
             ordered     == UniqueIds(SelectSeq(recentIds, InItems))
             NotUsed(id) == ~Contains(ordered, id)
         IN  ordered \o SelectSeq(items, NotUsed)

MaxRecent == 25

\* a variant that keeps every id
bumpRecentUncut(prev, id) ==
    LET Other(x) == x # id
    IN  <<id>> \o SelectSeq(prev, Other)

\* LogScreen.bumpRecent
bumpRecent(prev, id) ==
    LET Other(x) == x # id
        next     == <<id>> \o SelectSeq(prev, Other)
    IN  SubSeq(next, 1, IF Len(next) < MaxRecent THEN Len(next) ELSE MaxRecent)

\* LogScreen.getDefaultHabitId
getDefaultHabitId(selection, recentIds) ==
    IF recentIds # <<>> THEN recentIds[1]
    ELSE IF applyRecentOrdering(selection, recentIds) # <<>>
         THEN applyRecentOrdering(selection, recentIds)[1]
    ELSE IF selection # <<>> THEN selection[1]
    ELSE NULL

\* the effect of LogScreen that chooses the first habit when none is chosen
HabitIdEffect(h, selection, recentIds) ==
    IF h = NULL /\ applyRecentOrdering(selection, recentIds) # <<>>
    THEN applyRecentOrdering(selection, recentIds)[1]
    ELSE h

\* INSERT OR IGNORE INTO <table> (name, isCustom) VALUES (clean, 1): name is UNIQUE
InsertOrIgnore(table, clean) ==
    IF Contains(table, clean) THEN table ELSE Append(table, clean)

\* updated.find((x) => x.name.toLowerCase() === clean.toLowerCase()), as an id;
\* the loaders order by isCustom, id, which is the order of the ids
FindMatch(table, clean) ==
    IF \E i \in 1..Len(table) : toLowerCase(table[i]) = toLowerCase(clean)
    THEN CHOOSE i \in 1..Len(table) :
            /\ toLowerCase(table[i]) = toLowerCase(clean)
            /\ \A j \in 1..(i - 1) : toLowerCase(table[j]) # toLowerCase(clean)
    ELSE NULL

\* DELETE FROM user_<table>, INSERT OR IGNORE each unique id, then the JOIN of
\* the loader, which keeps the ids that have a row in the table
StoreSelection(table, ids) ==
    LET Known(id) == id \in 1..Len(table) IN SelectSeq(UniqueIds(ids), Known)

\* the selection after addCustom<Item>(name, true) has stored clean
AutoSelect(table, selection, clean) ==
    LET match == FindMatch(table, clean)
    IN  IF match = NULL THEN selection
        ELSE StoreSelection(table, Append(selection, match))

\* names typed into the "add" field of ManageList, Onboarding and Shop
CustomNames == {<<" ">>, <<" ", "a", " ">>}

\* id lists passed to the selection setters
SelectionInputs == {<<>>, <<2, 1, 2>>}

addCustomHabit(name) ==
    LET clean == Trim(name)
    IN  /\ clean # <<>>
        /\ habits' = InsertOrIgnore(habits, clean)
        /\ selectedHabits' = AutoSelect(habits', selectedHabits, clean)
        /\ userHabits' = selectedHabits'
        /\ habitId' = HabitIdEffect(habitId, selectedHabits', recentHabitIds)
        /\ UNCHANGED <<others, memos, didResist, count, showCountPicker, saving, submitted,
                       recentHabitIds, fields, tz, now, tick, cues, locations, selectedCues, selectedLocations,
                       dbLogs, logs, selectedHabit, todayStartMs, activeTab,
                       monthOffset, dayModalOpen, selectedDayMs>>

addCustomCue(name) ==
    LET clean == Trim(name)
    IN  /\ clean # <<>>
        /\ cues' = InsertOrIgnore(cues, clean)
        /\ selectedCues' = AutoSelect(cues', selectedCues, clean)
        /\ UNCHANGED <<others, memos, form, tz, now, tick, habits, locations, selectedHabits,
                       selectedLocations, userHabits, dbLogs, logs, selectedHabit, todayStartMs,
                       activeTab, monthOffset, dayModalOpen, selectedDayMs>>

addCustomLocation(name) ==
    LET clean == Trim(name)
    IN  /\ clean # <<>>
        /\ locations' = InsertOrIgnore(locations, clean)
        /\ selectedLocations' = AutoSelect(locations', selectedLocations, clean)
        /\ UNCHANGED <<others, memos, form, tz, now, tick, habits, cues, selectedHabits, selectedCues,
                       userHabits, dbLogs, logs, selectedHabit, todayStartMs, activeTab,
                       monthOffset, dayModalOpen, selectedDayMs>>

setSelectedHabits(habitIds) ==
    /\ selectedHabits' = StoreSelection(habits, habitIds)
    /\ userHabits' = selectedHabits'
    /\ habitId' = HabitIdEffect(habitId, selectedHabits', recentHabitIds)
    /\ UNCHANGED <<others, memos, didResist, count, showCountPicker, saving, submitted,
                   recentHabitIds, fields, tz, now, tick, habits, cues, locations, selectedCues,
                   selectedLocations, dbLogs, logs, selectedHabit, todayStartMs,
                   activeTab, monthOffset, dayModalOpen, selectedDayMs>>

setSelectedCues(cueIds) ==
    /\ selectedCues' = StoreSelection(cues, cueIds)
    /\ UNCHANGED <<others, memos, form, tz, now, tick, habits, cues, locations, selectedHabits,
                   selectedLocations, userHabits, dbLogs, logs, selectedHabit, todayStartMs,
                   activeTab, monthOffset, dayModalOpen, selectedDayMs>>

setSelectedLocations(locationIds) ==
    /\ selectedLocations' = StoreSelection(locations, locationIds)
    /\ UNCHANGED <<others, memos, form, tz, now, tick, habits, cues, locations, selectedHabits,
                   selectedCues, userHabits, dbLogs, logs, selectedHabit, todayStartMs,
                   activeTab, monthOffset, dayModalOpen, selectedDayMs>>

\* a launch of the app: the mount effect of DataProvider runs resetDbForDev,
\* which drops and re-creates every table, and then refresh; every screen
\* starts from its initial state
DataProviderMount ==
    /\ habits' = HabitNames
    /\ cues' = CueNames
    /\ locations' = LocationNames
    /\ selectedHabits' = <<>>
    /\ selectedCues' = <<>>
    /\ selectedLocations' = <<>>
    /\ userHabits' = <<>>
    /\ hasOnboarded' = FALSE
    /\ calls' = <<>>
    /\ pressed' = NoPresses(pressed, <<>>)
    /\ dbLogs' = <<>>
    /\ logs' = loadLogs(dbLogs')
    /\ selectedHabit' = NullStr
    /\ habitId' = NULL
    /\ didResist' = FALSE
    /\ count' = 1
    /\ showCountPicker' = FALSE
    /\ saving' = FALSE
    /\ submitted' = <<>>
    /\ recentHabitIds' = <<>>
    /\ cueId' = NULL
    /\ locationId' = NULL
    /\ intensity' = NULL
    /\ notes' = <<>>
    /\ errorMsg' = ""
    /\ todayStartMs' = NULL
    /\ activeTab' = Overall
    /\ monthOffset' = 0
    /\ dayModalOpen' = FALSE
    /\ selectedDayMs' = NULL
    /\ calendarAt' = NULL
    /\ dataAt' = NULL
    /\ statsAt' = now
    /\ busy' = ""
    /\ alert' = ""
    /\ credentials' = NoCredentials
    /\ UNCHANGED <<tz, now, tick, exported, user, sent>>

(***************************************************************************)
(* Spec: the data layer and the calendar of the Analytics screen.          *)
(***************************************************************************)
Next ==
    \/ Tick(MaxTick)
    \/ SaveLog(MaxCalLogs)
    \/ MountAnalytics
    \/ setActiveTab
    \/ PrevMonth(MaxCalOffset)
    \/ NextMonth(MaxCalOffset)

Spec == Init /\ [][Next]_vars

(***************************************************************************)
(* SpecHome: the data layer and the Home screen.                           *)
(***************************************************************************)
NextHome ==
    \/ Tick(MaxTick)
    \/ SaveLog(MaxLogs)
    \/ setSelectedHabit

SpecHome == Init /\ [][NextHome]_vars

(***************************************************************************)
(* SpecGrid: month navigation of the Analytics screen over a wide range of *)
(* offsets, before any record is logged.                                   *)
(***************************************************************************)
NextGrid ==
    \/ Tick(MaxTick)
    \/ MountAnalytics
    \/ PrevMonth(MaxOffset)
    \/ NextMonth(MaxOffset)

SpecGrid == Init /\ [][NextGrid]_vars

(***************************************************************************)
(* SpecDay: the data layer and the day modal of the Analytics screen.      *)
(***************************************************************************)
NextDay ==
    \/ Tick(MaxTick)
    \/ SaveLog(MaxCalLogs)
    \/ MountAnalytics
    \/ setActiveTab
    \/ openDayModal
    \/ closeDayModal

SpecDay == Init /\ [][NextDay]_vars

(***************************************************************************)
(* SpecData: every operation of the data layer.                            *)
(***************************************************************************)
NextData ==
    \/ Tick(MaxDataTick)
    \/ DataProviderMount
    \/ \E name \in CustomNames : addCustomHabit(name)
    \/ \E name \in CustomNames : addCustomCue(name)
    \/ \E name \in CustomNames : addCustomLocation(name)
    \/ \E ids \in SelectionInputs : setSelectedHabits(ids)
    \/ \E ids \in SelectionInputs : setSelectedCues(ids)
    \/ \E ids \in SelectionInputs : setSelectedLocations(ids)
    \/ SaveLog(MaxDataLogs)

SpecData == Init /\ [][NextData]_vars

(***************************************************************************)
(* SpecFilter: custom habits and cues, records with and without a cue and  *)
(* a location, and the habit filters of the Home and Analytics screens.    *)
(***************************************************************************)
\* the Log screen saves a habit, with the newest cue of the list and no
\* location, or with the first location and no cue
SaveFilterLog ==
    \E h \in HabitIds, in \in {<<Len(cues), NULL>>, <<NULL, 1>>} :
        addLog(MaxFilterLogs, LogInput(h, in[1], in[2], FALSE))

NextFilter ==
    \/ Tick(MaxFilterTick)
    \/ \E name \in CustomNames : addCustomHabit(name)
    \/ \E name \in CustomNames : addCustomCue(name)
    \/ SaveFilterLog
    \/ setSelectedHabit
    \/ MountAnalytics
    \/ setActiveTab

SpecFilter == Init /\ [][NextFilter]_vars

(***************************************************************************)
(* SpecDates: the date utilities over the year 2024.  The clock starts at  *)
(* any of the instants SampleStart + k * SampleStep.                       *)
(***************************************************************************)
\* 2024-01-01 00:00 UTC
SampleStart == 19723 * HoursPerDay

InitDates ==
    /\ tz \in TimeZones
    /\ now \in {SampleStart + k * SampleStep : k \in 0..MaxSample}
    /\ tick = 0
    /\ OthersInit
    /\ Seeded
    /\ dbLogs = <<>>
    /\ logs = <<>>
    /\ selectedHabit = NullStr
    /\ todayStartMs = NULL
    /\ calendarAt = NULL
    /\ dataAt = NULL
    /\ statsAt = now
    /\ activeTab = Overall
    /\ monthOffset = 0
    /\ FormDefaults
    /\ dayModalOpen = FALSE
    /\ selectedDayMs = NULL

NextDates ==
    \/ MountAnalytics
    \/ SaveLog(MaxDateLogs)

SpecDates == InitDates /\ [][NextDates]_vars

(***************************************************************************)
(* The Log screen.  While a picker is shown it covers the form.            *)
(***************************************************************************)
\* what the Log screen leaves alone, apart from the table and the list of logs
beyondForm ==
    <<others, lists, tz, now, tick, selectedHabit, todayStartMs, activeTab, monthOffset,
      dayModalOpen, selectedDayMs>>

\* a press on a habit chip
setHabitId ==
    /\ ~showCountPicker
    /\ \E i \in 1..Len(selectedHabits) :
          /\ selectedHabits[i] # habitId
          /\ habitId' = selectedHabits[i]
    /\ UNCHANGED <<memos, didResist, count, showCountPicker, saving, submitted,
                   recentHabitIds, dbLogs, logs, fields, beyondForm>>

\* a variant of the switch handler that keeps the count
setDidResistOnly(v) ==
    /\ ~showCountPicker
    /\ v # didResist
    /\ didResist' = v
    /\ UNCHANGED <<memos, habitId, count, showCountPicker, saving, submitted,
                   recentHabitIds, dbLogs, logs, fields, beyondForm>>

\* the "Resisted?" switch, which reports its new value
setDidResistAndMaybeCount(v) ==
    /\ ~showCountPicker
    /\ v # didResist
    /\ didResist' = v
    /\ count' = IF v THEN 0 ELSE IF count = 0 THEN 1 ELSE count
    /\ UNCHANGED <<memos, habitId, showCountPicker, saving, submitted, recentHabitIds,
                   dbLogs, logs, fields, beyondForm>>

\* a press on the count chip or on "+ Add"
openCountPicker ==
    /\ ~showCountPicker
    /\ showCountPicker' = TRUE
    /\ UNCHANGED <<memos, habitId, didResist, count, saving, submitted, recentHabitIds,
                   dbLogs, logs, fields, beyondForm>>

\* the choices of CountPickerModal: "None" when allowNone, and 1 to 10
CountOptions(allowNone) == (IF allowNone THEN {0} ELSE {}) \cup 1..10

\* onPick of the CountPickerModal of the screen
onPickCount(n) ==
    /\ showCountPicker
    /\ n \in CountOptions(didResist)
    /\ count' = n
    /\ didResist' = IF n > 0 THEN FALSE ELSE didResist
    /\ showCountPicker' = FALSE
    /\ UNCHANGED <<memos, habitId, saving, submitted, recentHabitIds, dbLogs, logs, fields, beyondForm>>

\* onClose of the CountPickerModal
closeCountPicker ==
    /\ showCountPicker
    /\ showCountPicker' = FALSE
    /\ UNCHANGED <<memos, habitId, didResist, count, saving, submitted, recentHabitIds,
                   dbLogs, logs, fields, beyondForm>>

\* the input onSave gives to addLog; a null intensity is an absent one, and
\* the notes are not kept in the rows of the model
SaveInput ==
    LET base == [habitId |-> habitId, cueId |-> cueId, locationId |-> locationId,
                 count |-> count, didResist |-> didResist]
    IN  IF intensity = NULL THEN base
        ELSE [f \in DOMAIN base \cup {"intensity"} |->
                 IF f = "intensity" THEN intensity ELSE base[f]]

\* onSave up to the await of addLog; without a habit it only sets the error
\* message.  The button is disabled while saving.
onSave ==
    /\ ~showCountPicker
    /\ ~saving
    /\ IF habitId = NULL
       THEN /\ errorMsg' = "Select a habit."
            /\ UNCHANGED <<saving, submitted>>
       ELSE /\ Len(dbLogs) < MaxFormLogs
            /\ errorMsg' = ""
            /\ saving' = TRUE
            /\ submitted' = <<SaveInput>>
    /\ UNCHANGED <<memos, habitId, didResist, count, showCountPicker, recentHabitIds,
                   cueId, locationId, intensity, notes, dbLogs, logs, beyondForm>>

\* addLog resolves and onSave goes on: the recent list, the form, the flag
onSaveResolved ==
    /\ saving
    /\ InsertLog(MaxFormLogs, submitted[1])
    /\ recentHabitIds' = bumpRecent(recentHabitIds, submitted[1].habitId)
    /\ habitId' = submitted[1].habitId
    /\ didResist' = FALSE
    /\ count' = 1
    /\ showCountPicker' = FALSE
    /\ saving' = FALSE
    /\ submitted' = <<>>
    /\ cueId' = NULL
    /\ locationId' = NULL
    /\ notes' = <<>>
    /\ intensity' = NULL
    /\ UNCHANGED <<errorMsg, beyondForm>>

\* a press on the tab of the screen while it is focused
resetToDefaults ==
    /\ ~showCountPicker
    /\ habitId' = HabitIdEffect(getDefaultHabitId(selectedHabits, recentHabitIds),
                                selectedHabits, recentHabitIds)
    /\ didResist' = FALSE
    /\ count' = 1
    /\ showCountPicker' = FALSE
    /\ cueId' = NULL
    /\ locationId' = NULL
    /\ notes' = <<>>
    /\ intensity' = NULL
    /\ errorMsg' = ""
    /\ UNCHANGED <<memos, saving, submitted, recentHabitIds, dbLogs, logs, beyondForm>>

\* the counts picked in the runs of the model
PickedCounts == {0, 1, 10}

(***************************************************************************)
(* SpecForm: the Log screen and the data layer under it.                   *)
(***************************************************************************)
NextForm ==
    \/ Tick(MaxFormTick)
    \/ \E ids \in SelectionInputs : setSelectedHabits(ids)
    \/ setHabitId
    \/ \E v \in BOOLEAN : setDidResistAndMaybeCount(v)
    \/ openCountPicker
    \/ \E n \in PickedCounts : onPickCount(n)
    \/ closeCountPicker
    \/ onSave
    \/ onSaveResolved
    \/ resetToDefaults

SpecForm == Init /\ [][NextForm]_vars

(***************************************************************************)
(* SpecClamp: addLog called with any integer intensity and count, present  *)
(* or not.  The call starts with its input in submitted.                   *)
(***************************************************************************)
\* an optional integer: <<FALSE, 0>> is undefined, <<TRUE, x>> is x
OptionalInts == {<<FALSE, 0>>} \cup {<<TRUE, x>> : x \in (0 - MaxOver)..(10 + MaxOver)}

MakeInput(r, i, c) ==
    LET base == LogInput(1, NULL, NULL, r)
    IN  IF i[1] /\ c[1]
        THEN [habitId |-> 1, cueId |-> NULL, locationId |-> NULL, didResist |-> r,
              intensity |-> i[2], count |-> c[2]]
        ELSE IF i[1]
        THEN [habitId |-> 1, cueId |-> NULL, locationId |-> NULL, didResist |-> r,
              intensity |-> i[2]]
        ELSE IF c[1]
        THEN [habitId |-> 1, cueId |-> NULL, locationId |-> NULL, didResist |-> r,
              count |-> c[2]]
        ELSE base

InitClamp ==
    /\ tz \in TimeZones
    /\ now = ClockStart
    /\ tick = 0
    /\ OthersInit
    /\ Seeded
    /\ dbLogs = <<>>
    /\ logs = <<>>
    /\ selectedHabit = NullStr
    /\ habitId = NULL
    /\ didResist = FALSE
    /\ count = 1
    /\ showCountPicker = FALSE
    /\ saving = FALSE
    /\ submitted \in {<<MakeInput(r, i, c)>> : r \in BOOLEAN, i \in OptionalInts, c \in OptionalInts}
    /\ recentHabitIds = <<>>
    /\ FieldDefaults
    /\ todayStartMs = NULL
    /\ calendarAt = NULL
    /\ dataAt = NULL
    /\ statsAt = now
    /\ activeTab = Overall
    /\ monthOffset = 0
    /\ dayModalOpen = FALSE
    /\ selectedDayMs = NULL

NextClamp == addLog(MaxClampLogs, submitted[1])

SpecClamp == InitClamp /\ [][NextClamp]_vars

(***************************************************************************)
(* SpecSave: the Log screen with its cue, location, intensity and notes,   *)
(* and calls of addLog that fail.                                          *)
(***************************************************************************)
\* onSave is pressed while the table holds fewer rows than this
MaxSaveLogs == 1

\* a press on a chip of the Cue row, "None" included
setCueId ==
    /\ ~showCountPicker
    /\ \E id \in {NULL} \cup {selectedCues[i] : i \in 1..Len(selectedCues)} :
          /\ id # cueId
          /\ cueId' = id
    /\ UNCHANGED <<memos, habitId, didResist, count, showCountPicker, saving, submitted,
                   recentHabitIds, locationId, intensity, notes, errorMsg, dbLogs, logs,
                   beyondForm>>

\* a press on a chip of the Location row, "None" included
setLocationId ==
    /\ ~showCountPicker
    /\ \E id \in {NULL} \cup {selectedLocations[i] : i \in 1..Len(selectedLocations)} :
          /\ id # locationId
          /\ locationId' = id
    /\ UNCHANGED <<memos, habitId, didResist, count, showCountPicker, saving, submitted,
                   recentHabitIds, cueId, intensity, notes, errorMsg, dbLogs, logs,
                   beyondForm>>

\* the intensities picked in the runs of the model; NULL is onClear
PickedIntensities == {NULL, 7}

\* onPick and onClear of the IntensityPickerModal, taken with its opening
setIntensity(n) ==
    /\ ~showCountPicker
    /\ n # intensity
    /\ intensity' = n
    /\ UNCHANGED <<memos, habitId, didResist, count, showCountPicker, saving, submitted,
                   recentHabitIds, cueId, locationId, notes, errorMsg, dbLogs, logs,
                   beyondForm>>

\* the texts typed in the runs of the model
NoteInputs == {<<>>, <<"a">>}

\* onChangeText of the notes input
setNotes(text) ==
    /\ ~showCountPicker
    /\ text # notes
    /\ notes' = text
    /\ UNCHANGED <<memos, habitId, didResist, count, showCountPicker, saving, submitted,
                   recentHabitIds, cueId, locationId, intensity, errorMsg, dbLogs, logs,
                   beyondForm>>

\* a variant that clears the form as a successful save does
onSaveRejectedCleared ==
    /\ saving
    /\ habitId' = submitted[1].habitId
    /\ didResist' = FALSE
    /\ count' = 1
    /\ cueId' = NULL
    /\ locationId' = NULL
    /\ notes' = <<>>
    /\ intensity' = NULL
    /\ errorMsg' = "Could not save."
    /\ saving' = FALSE
    /\ submitted' = <<>>
    /\ UNCHANGED <<memos, showCountPicker, recentHabitIds, dbLogs, logs, beyondForm>>

\* addLog rejects and onSave goes to its catch and finally. The INSERT has
\* failed, or the INSERT is done and the reload of the logs has failed.
onSaveRejected ==
    /\ saving
    /\ \/ UNCHANGED dbLogs
       \/ InsertRow(MaxFormLogs, submitted[1])
    /\ errorMsg' = "Could not save."
    /\ saving' = FALSE
    /\ submitted' = <<>>
    /\ UNCHANGED <<memos, habitId, didResist, count, showCountPicker, recentHabitIds,
                   cueId, locationId, intensity, notes, logs, beyondForm>>

NextSave ==
    \/ \E ids \in SelectionInputs : setSelectedHabits(ids)
    \/ \E ids \in SelectionInputs : setSelectedCues(ids)
    \/ \E ids \in SelectionInputs : setSelectedLocations(ids)
    \/ setHabitId
    \/ setCueId
    \/ setLocationId
    \/ \E v \in BOOLEAN : setDidResistAndMaybeCount(v)
    \/ \E n \in PickedIntensities : setIntensity(n)
    \/ \E text \in NoteInputs : setNotes(text)
    \/ Len(dbLogs) < MaxSaveLogs /\ onSave
    \/ onSaveResolved
    \/ onSaveRejected
    \/ resetToDefaults

SpecSave == Init /\ [][NextSave]_vars

(***************************************************************************)
(* SpecRecent: bumpRecent and applyRecentOrdering on lists longer than the *)
(* seeded catalogue gives.  The recent list is in recentHabitIds, the item *)
(* list in selectedHabits, the id saved last in habitId.                   *)
(***************************************************************************)
\* ids 1 .. MaxRecent + ExtraIds are saved
ExtraIds == 2

\* the recent list after the ids 1 .. k were saved in this order
RECURSIVE Saved(_)
Saved(k) == IF k = 0 THEN <<>> ELSE bumpRecent(Saved(k - 1), k)

\* item lists with unique ids: none, in and out of order, beyond the cap
ItemInputs ==
    {<<>>, <<1, 2>>, <<2, 1, 3>>, <<MaxRecent + 1, 1, MaxRecent, 2>>,
     [i \in 1..(MaxRecent + ExtraIds) |-> i]}

\* the ids saved in the runs of the model
BumpIds == {1, 2, MaxRecent, MaxRecent + 1, MaxRecent + ExtraIds}

InitRecent ==
    /\ tz \in TimeZones
    /\ now = ClockStart
    /\ tick = 0
    /\ OthersInit
    /\ habits = HabitNames
    /\ cues = CueNames
    /\ locations = LocationNames
    /\ selectedHabits \in ItemInputs
    /\ userHabits = selectedHabits
    /\ selectedCues = <<>>
    /\ selectedLocations = <<>>
    /\ dbLogs = <<>>
    /\ logs = <<>>
    /\ selectedHabit = NullStr
    /\ todayStartMs = NULL
    /\ calendarAt = NULL
    /\ dataAt = NULL
    /\ statsAt = now
    /\ activeTab = Overall
    /\ monthOffset = 0
    /\ \E k \in 0..(MaxRecent + ExtraIds) :
          /\ recentHabitIds = Saved(k)
          /\ habitId = IF k = 0 THEN NULL ELSE k
    /\ didResist = FALSE
    /\ count = 1
    /\ showCountPicker = FALSE
    /\ saving = FALSE
    /\ submitted = <<>>
    /\ FieldDefaults
    /\ dayModalOpen = FALSE
    /\ selectedDayMs = NULL

\* onSave after addLog, for the habit: setRecentHabitIds((prev) =>
\* bumpRecent(prev, submittedHabitId)) and setHabitId(submittedHabitId)
setRecentHabitIds(id) ==
    /\ recentHabitIds' = bumpRecent(recentHabitIds, id)
    /\ habitId' = id
    /\ UNCHANGED <<memos, didResist, count, showCountPicker, saving, submitted,
                   dbLogs, logs, fields, beyondForm>>

NextRecent == \E id \in BumpIds : setRecentHabitIds(id)

SpecRecent == InitRecent /\ [][NextRecent]_vars

(***************************************************************************)
(* The Profile screen.                                                     *)
(***************************************************************************)
\* the keys of the value that DataProvider gives to useData()
ContextKeys ==
    {"habits", "cues", "locations", "selectedHabits", "selectedCues",
     "selectedLocations", "hasOnboarded", "completeOnboarding", "resetOnboarding",
     "setSelectedHabits", "setSelectedCues", "setSelectedLocations",
     "addCustomHabit", "addCustomCue", "addCustomLocation", "logs", "addLog",
     "actions", "addAction", "refresh", "resetDbForDev"}

\* typeof exportData === "function"
canExport == "exportData" \in ContextKeys

\* typeof resetAll === "function"
canReset == "resetAll" \in ContextKeys

\* what is left on the Profile screen and beyond
beyondProfile ==
    <<credentials, user, sent, hasOnboarded, calls, pressed, memos, lists, form, tz, now, tick, dbLogs, logs, selectedHabit, todayStartMs,
      activeTab, monthOffset, dayModalOpen, selectedDayMs>>

\* a press on "Export data"; the button is disabled while busy is set
onExport ==
    /\ busy = ""
    /\ alert = ""
    /\ IF ~canExport
       THEN /\ alert' = "Export not available"
            /\ UNCHANGED <<busy, exported>>
       ELSE /\ exported' = Append(exported, dbLogs)
            /\ UNCHANGED <<busy, alert>>
    /\ UNCHANGED beyondProfile

\* a press on "Reset all data"
onReset ==
    /\ busy = ""
    /\ alert = ""
    /\ alert' = IF ~canReset THEN "Reset not available" ELSE "Reset all data?"
    /\ UNCHANGED <<busy, exported, beyondProfile>>

\* the user closes the Alert
dismissAlert ==
    /\ alert # ""
    /\ alert' = ""
    /\ UNCHANGED <<busy, exported, beyondProfile>>

(***************************************************************************)
(* Onboarding and the ManageList screen for habits.  A call of             *)
(* setSelectedHabits is a DELETE, one INSERT OR IGNORE per id and a load   *)
(* into the state, each awaited on its own, so calls in flight interleave. *)
(***************************************************************************)
\* the lists of ids chosen in the setup steps of Onboarding
OnboardInputs == {<<>>, <<1>>, <<1, 2>>}

\* what Onboarding and ManageList leave alone
beyondManage ==
    <<busy, exported, credentials, user, sent, memos, tz, now, tick, cues, locations,
      dbLogs, logs, selectedHabit, todayStartMs, activeTab, monthOffset, dayModalOpen,
      selectedDayMs, didResist, count, showCountPicker, saving, submitted,
      recentHabitIds, fields>>

\* OnboardingScreen.onFinish
onFinish ==
    /\ ~hasOnboarded
    /\ alert = ""
    /\ calls = <<>>
    /\ \E habitIds \in OnboardInputs, cueIds \in OnboardInputs :
          IF Len(habitIds) = 0
          THEN /\ alert' = "Pick at least one habit"
               /\ UNCHANGED <<selectedHabits, userHabits, selectedCues,
                              selectedLocations, hasOnboarded, habitId, pressed>>
          ELSE /\ selectedHabits' = StoreSelection(habits, habitIds)
               /\ userHabits' = selectedHabits'
               /\ selectedCues' = StoreSelection(cues, cueIds)
               /\ selectedLocations' = StoreSelection(locations, <<>>)
               /\ hasOnboarded' = TRUE
               /\ pressed' = NoPresses(pressed, selectedHabits')
               /\ habitId' = HabitIdEffect(habitId, selectedHabits', recentHabitIds)
               /\ UNCHANGED alert
    /\ UNCHANGED <<habits, calls, beyondManage>>

\* ManageListScreen.toggleSelected: next, from the selectedIds of the render
NextIds(selection, id) ==
    IF Contains(selection, id)
    THEN LET Other(x) == x # id IN SelectSeq(selection, Other)
    ELSE Append(selection, id)

NewCall(ids) == [ids |-> UniqueIds(ids), pc |-> "delete", done |-> 0]

\* a press on a row of ManageList (type "habits"); no call has to be over
toggleSelected(id) ==
    /\ hasOnboarded
    /\ alert = ""
    /\ Len(calls) < MaxCalls
    /\ IF Contains(selectedHabits, id) /\ Len(selectedHabits) = 1
       THEN /\ alert' = "Keep one habit"
            /\ UNCHANGED <<calls, pressed>>
       ELSE /\ calls' = Append(calls, NewCall(NextIds(selectedHabits, id)))
            /\ pressed' = Press(pressed, id, selectedHabits, calls = <<>>)
            /\ UNCHANGED alert
    /\ UNCHANGED <<habits, selectedHabits, userHabits, selectedCues, selectedLocations,
                   hasOnboarded, habitId, beyondManage>>

\* ManageListScreen.onAdd (type "habits"): addCustomHabit(name, true) up to
\* its call of setSelectedHabits
onAdd(name) ==
    LET clean == Trim(name)
        match == FindMatch(habits', clean)
        Known(id) == id \in 1..Len(habits')
    IN  /\ hasOnboarded
        /\ alert = ""
        /\ Len(calls) < MaxCalls
        /\ clean # <<>>
        /\ habits' = InsertOrIgnore(habits, clean)
        /\ calls' = IF match = NULL THEN calls
                    ELSE Append(calls, NewCall(Append(SelectSeq(userHabits, Known), match)))
        /\ pressed' = IF match = NULL THEN pressed
                      ELSE Press(pressed, NULL, selectedHabits, calls = <<>>)
        /\ UNCHANGED <<alert, selectedHabits, userHabits, selectedCues, selectedLocations,
                       hasOnboarded, habitId, beyondManage>>

WithCall(c, call) == [calls EXCEPT ![c] = call]

\* DELETE FROM user_habits
callDelete(c) ==
    /\ calls[c].pc = "delete"
    /\ userHabits' = <<>>
    /\ calls' = WithCall(c, [calls[c] EXCEPT !.pc = IF calls[c].ids = <<>>
                                                    THEN "load" ELSE "insert"])
    /\ UNCHANGED <<alert, pressed, habits, selectedHabits, selectedCues, selectedLocations,
                   hasOnboarded, habitId, beyondManage>>

\* INSERT OR IGNORE INTO user_habits (habitId) for the next id of the call
callInsert(c) ==
    LET id == calls[c].ids[calls[c].done + 1]
    IN  /\ calls[c].pc = "insert"
        /\ userHabits' = IF id \in 1..Len(habits) THEN SetAdd(userHabits, id)
                         ELSE userHabits
        /\ calls' = WithCall(c, [calls[c] EXCEPT
                                    !.done = @ + 1,
                                    !.pc = IF calls[c].done + 1 = Len(calls[c].ids)
                                           THEN "load" ELSE "insert"])
        /\ UNCHANGED <<alert, pressed, habits, selectedHabits, selectedCues, selectedLocations,
                       hasOnboarded, habitId, beyondManage>>

\* setSelectedHabitsState(await loadSelectedHabits()); the call is over
callLoad(c) ==
    /\ calls[c].pc = "load"
    /\ selectedHabits' = userHabits
    /\ habitId' = HabitIdEffect(habitId, selectedHabits', recentHabitIds)
    /\ calls' = SubSeq(calls, 1, c - 1) \o SubSeq(calls, c + 1, Len(calls))
    /\ UNCHANGED <<alert, pressed, habits, userHabits, selectedCues, selectedLocations,
                   hasOnboarded, beyondManage>>

\* the user closes the Alert of Onboarding or ManageList
closeAlert ==
    /\ alert # ""
    /\ alert' = ""
    /\ UNCHANGED <<habits, selectedHabits, userHabits, selectedCues, selectedLocations,
                   hasOnboarded, calls, pressed, habitId, beyondManage>>

NextManage ==
    \/ onFinish
    \/ \E id \in HabitIds : toggleSelected(id)
    \/ \E name \in CustomNames : onAdd(name)
    \/ \E c \in 1..Len(calls) : callDelete(c)
    \/ \E c \in 1..Len(calls) : callInsert(c)
    \/ \E c \in 1..Len(calls) : callLoad(c)
    \/ closeAlert

SpecManage == Init /\ [][NextManage]_vars

\* the same executions, with the history of the presses kept
InitToggle ==
    /\ tz \in TimeZones
    /\ now = ClockStart
    /\ tick = 0
    /\ busy = ""
    /\ alert = ""
    /\ exported = <<>>
    /\ credentials = NoCredentials
    /\ user = NullStr
    /\ sent = <<>>
    /\ hasOnboarded = FALSE
    /\ calls = <<>>
    /\ pressed = [NoHistory EXCEPT !.on = TRUE]
    /\ Seeded
    /\ dbLogs = <<>>
    /\ logs = <<>>
    /\ selectedHabit = NullStr
    /\ todayStartMs = NULL
    /\ calendarAt = NULL
    /\ dataAt = NULL
    /\ statsAt = now
    /\ activeTab = Overall
    /\ monthOffset = 0
    /\ FormDefaults
    /\ dayModalOpen = FALSE
    /\ selectedDayMs = NULL

SpecToggle == InitToggle /\ [][NextManage]_vars

(***************************************************************************)
(* Authentication: AuthContext and the Login, Register and Profile screens.*)
(***************************************************************************)
EmailInputs == {<<>>, <<" ", "A", "@", "b">>}

PasswordInputs == {<<>>, <<"A", "b">>, <<"A", "b", "1", "2", "3", "4">>}

NameInputs == {<<" ">>, <<"B", "o", " ">>}

\* AuthContext.normalizeEmail
normalizeEmail(email) == toLowerCase(Trim(email))

AuthCall(op, email, password, displayName) ==
    [op |-> op, email |-> email, password |-> password, displayName |-> displayName]

\* a variant that puts the name of the first habit into the profile
signUpCallsWithHabit(email, password, displayName) ==
    <<AuthCall("createUserWithEmailAndPassword", normalizeEmail(email), password, <<>>),
      AuthCall("updateProfile", <<>>, <<>>, habits[1])>>

\* the calls of AuthContext.signUp, in order
signUpCalls(email, password, displayName) ==
    <<AuthCall("createUserWithEmailAndPassword", normalizeEmail(email), password, <<>>)>>
    \o (IF Trim(displayName) # <<>>
        THEN <<AuthCall("updateProfile", <<>>, <<>>, Trim(displayName))>>
        ELSE <<>>)

\* the call of AuthContext.login
loginCalls(email, password) ==
    <<AuthCall("signInWithEmailAndPassword", normalizeEmail(email), password, <<>>)>>

\* the call of AuthContext.signOut
signOutCalls == <<AuthCall("signOut", <<>>, <<>>, <<>>)>>

\* what the auth operations leave alone
beyondAuth ==
    <<busy, exported, hasOnboarded, calls, pressed, memos, lists, form, tz, now, tick, dbLogs, logs, selectedHabit,
      todayStartMs, activeTab, monthOffset, dayModalOpen, selectedDayMs>>

\* setEmail, setPassword, setDisplayName
enterCredentials ==
    /\ alert = ""
    /\ \E e \in EmailInputs, p \in PasswordInputs, n \in NameInputs :
          /\ credentials' = [email |-> e, password |-> p, displayName |-> n]
          /\ credentials' # credentials
    /\ UNCHANGED <<alert, user, sent, beyondAuth>>

\* LoginScreen.onLogin; the provider accepts or rejects the call
onLogin ==
    /\ alert = ""
    /\ IF Trim(credentials.email) = <<>> \/ credentials.password = <<>>
       THEN /\ alert' = "Missing fields"
            /\ UNCHANGED <<user, sent>>
       ELSE /\ Len(sent) < MaxSent
            /\ sent' = sent \o loginCalls(Trim(credentials.email), credentials.password)
            /\ \/ /\ user' = normalizeEmail(credentials.email)
                  /\ UNCHANGED alert
               \/ /\ alert' = "Login failed"
                  /\ UNCHANGED user
    /\ UNCHANGED <<credentials, beyondAuth>>

\* RegisterScreen.isValid
isValid ==
    /\ Len(Trim(credentials.displayName)) > 0
    /\ Len(Trim(credentials.email)) > 0
    /\ Len(credentials.password) >= 6

\* RegisterScreen.onRegister; the button is disabled unless isValid
onRegister ==
    /\ alert = ""
    /\ isValid
    /\ Len(sent) < MaxSent
    /\ LET made  == signUpCalls(Trim(credentials.email), credentials.password,
                                Trim(credentials.displayName))
       IN  \/ /\ sent' = sent \o made
              /\ user' = normalizeEmail(credentials.email)
              /\ UNCHANGED alert
           \/ /\ sent' = sent \o SubSeq(made, 1, 1)
              /\ alert' = "Registration failed"
              /\ UNCHANGED user
           \/ /\ sent' = sent \o made
              /\ user' = normalizeEmail(credentials.email)
              /\ alert' = "Registration failed"
    /\ UNCHANGED <<credentials, beyondAuth>>

\* ProfileScreen.onLogout: the Alert with Cancel, Export first and Log out
onLogout ==
    /\ busy = ""
    /\ alert = ""
    /\ alert' = "Log out?"
    /\ UNCHANGED <<credentials, user, sent, beyondAuth>>

\* the "Log out" button of the Alert
logOutPressed ==
    /\ alert = "Log out?"
    /\ Len(sent) < MaxSent
    /\ sent' = sent \o signOutCalls
    /\ \/ /\ user' = NullStr
          /\ alert' = ""
       \/ /\ alert' = "Logout failed"
          /\ UNCHANGED user
    /\ UNCHANGED <<credentials, beyondAuth>>

NextAuth ==
    \/ SaveLog(MaxAuthLogs)
    \/ \E name \in CustomNames : addCustomHabit(name)
    \/ enterCredentials
    \/ onLogin
    \/ onRegister
    \/ onLogout
    \/ logOutPressed
    \/ dismissAlert

SpecAuth == Init /\ [][NextAuth]_vars

NextProfile ==
    \/ Tick(MaxTick)
    \/ SaveLog(MaxCalLogs)
    \/ onExport
    \/ onReset
    \/ dismissAlert

SpecProfile == Init /\ [][NextProfile]_vars

(***************************************************************************)
(* SpecEmpty: the Home screen and the Analytics screen with its tabs, its   *)
(* month navigation and its day modal, with no record or one.              *)
(***************************************************************************)
NextEmpty ==
    \/ Tick(MaxTick)
    \/ SaveLog(MaxEmptyLogs)
    \/ MountAnalytics
    \/ setActiveTab
    \/ PrevMonth(MaxCalOffset)
    \/ NextMonth(MaxCalOffset)
    \/ openDayModal
    \/ closeDayModal

SpecEmpty == Init /\ [][NextEmpty]_vars

(***************************************************************************)
(* Streaks (Home screen), stated on local calendar day numbers.            *)
(***************************************************************************)
\* the local days that hold at least one record with didResist = 1
QualifyingDays(ls) ==
    {LocalDayNumber(ls[i].createdAt) : i \in {j \in 1..Len(ls) : ls[j].didResist = 1}}

\* the number of consecutive days of S counted backward from day d
RECURSIVE RunBack(_, _)
RunBack(S, d) == IF d \in S THEN 1 + RunBack(S, d - 1) ELSE 0

\* the length of the longest run of consecutive days in S
LongestRun(S) ==
    IF S = {} THEN 0
    ELSE CHOOSE n \in 1..Cardinality(S) :
            /\ \E d \in S : RunBack(S, d) = n
            /\ \A d \in S : RunBack(S, d) <= n

StatsLogs == logsForStats(logs, selectedHabit)

Today == LocalDayNumber(now)

\* C1: the current streak is the number of consecutive local days, counted
\* backward from today, that each hold a record with didResist = 1.
C1_CurrentStreak ==
    HomeStats.currentStreak = RunBack(QualifyingDays(StatsLogs), Today)

\* three qualifying days in a row ending today
C1_Witness ==
    /\ HomeStats.currentStreak = 3
    /\ {Today, Today - 1, Today - 2} \subseteq QualifyingDays(StatsLogs)

\* C2: the current streak is 0 exactly when today is not a qualifying day.
C2_ZeroIffTodayMissing ==
    (HomeStats.currentStreak = 0) <=> (Today \notin QualifyingDays(StatsLogs))

\* yesterday qualifies, today does not, and the streak is 0
C2_Witness ==
    /\ HomeStats.currentStreak = 0
    /\ (Today - 1) \in QualifyingDays(StatsLogs)
    /\ Today \notin QualifyingDays(StatsLogs)

\* C3: the best streak is the length of the longest run of consecutive local
\* calendar days among the qualifying days.
C3_BestStreakIsLongestRun ==
    HomeStats.bestStreak = LongestRun(QualifyingDays(StatsLogs))

(***************************************************************************)
(* SpecRank: the data layer and the weekly rankings of the Analytics       *)
(* screen.  The screen is mounted from the start; the clock starts on      *)
(* Sunday 2024-03-31 12:00 UTC, the last half day of a week.               *)
(***************************************************************************)
InitRank ==
    /\ tz \in TimeZones
    /\ now = ClockStart + HoursPerDay
    /\ tick = 0
    /\ OthersInit
    /\ Seeded
    /\ dbLogs = <<>>
    /\ logs = <<>>
    /\ selectedHabit = NullStr
    /\ todayStartMs = startOfDayMs(now)
    /\ calendarAt = now
    /\ dataAt = now
    /\ statsAt = now
    /\ activeTab = Overall
    /\ monthOffset = 0
    /\ FormDefaults
    /\ dayModalOpen = FALSE
    /\ selectedDayMs = NULL

\* the (habit, cue, location) choices of the Log screen used for the rankings
RankInputs == {<<1, 1, 1>>, <<1, 2, 2>>, <<2, 3, 3>>, <<2, NULL, 4>>}

SaveRankLog ==
    \E in \in RankInputs : addLog(MaxRankLogs, LogInput(in[1], in[2], in[3], FALSE))

NextRank ==
    \/ Tick(MaxRankTick)
    \/ SaveRankLog
    \/ setActiveTab

SpecRank == InitRank /\ [][NextRank]_vars

(***************************************************************************)
(* The calendar grid, stated on the civil calendar.                        *)
(***************************************************************************)
\* year and month (1..12) of the clock's month shifted by the offset
ShownYM ==
    LET ld == LocalDate(now)
        ym == ld.y * 12 + (ld.m - 1) + monthOffset
    IN  [y |-> ym \div 12, m |-> (ym % 12) + 1]

\* Monday-anchored weekday index of a day number (1970-01-01 was a Thursday)
MondayAnchored(day) == (day + 3) % 7

IsDayCell(c) == c.count # NULL

DayCells(cells) == SelectSeq(cells, IsDayCell)

\* the number of blank cells before the first day cell
LeadingBlanks(cells) ==
    Cardinality({i \in 1..Len(cells) : \A j \in 1..i : ~IsDayCell(cells[j])})

\* the local day number of a day cell of the shown month
CellDay(c) == DaysFromCivil(ShownYM.y, ShownYM.m, ToNumber(c.label))

GridShape(cells, weeks) ==
    /\ Len(cells) % 7 = 0
    /\ Len(weeks) * 7 = Len(cells)
    /\ \A w \in 1..Len(weeks) : Len(weeks[w]) = 7
    /\ Len(DayCells(cells)) = DaysInMonthOf(ShownYM.y, ShownYM.m)
    /\ \A d \in 1..Len(DayCells(cells)) : ToNumber(DayCells(cells)[d].label) = d

\* C4: the grid has a whole number of 7-cell weeks and exactly one day cell
\* per day of the displayed month, labelled 1..daysInMonth in order.
C4_GridShape == mounted => GridShape(Cells, Weeks)

\* a leap-year February is displayed
C4_Witness ==
    /\ mounted
    /\ ShownYM.m = 2
    /\ Len(DayCells(Cells)) = 29

GridPadding(cells) ==
    LET lead == MondayAnchored(DaysFromCivil(ShownYM.y, ShownYM.m, 1))
        dim  == DaysInMonthOf(ShownYM.y, ShownYM.m)
    IN  /\ LeadingBlanks(cells) = lead
        /\ Len(cells) = ((lead + dim + 6) \div 7) * 7
        /\ Len(cells) - lead - dim < 7

\* C5: the leading blanks are the Monday-anchored weekday index of the 1st,
\* and the grid has ceil((leadingBlanks + daysInMonth) / 7) * 7 cells.
C5_GridPadding == mounted => GridPadding(Cells)

\* a 30-day month that starts on a Thursday: 3 leading blanks and 35 cells
C5_Witness ==
    /\ mounted
    /\ LeadingBlanks(Cells) = 3
    /\ Len(DayCells(Cells)) = 30
    /\ Len(Cells) = 35

(***************************************************************************)
(* Inactive cells.                                                         *)
(***************************************************************************)
\* the local day of the earliest record
InstallDay == 
    CHOOSE d \in {LocalDayNumber(logs[i].createdAt) : i \in 1..Len(logs)} :
        \A i \in 1..Len(logs) : d <= LocalDayNumber(logs[i].createdAt)

\* the local day the screen takes for today
ScreenToday == LocalDayNumber(todayStartMs)

InactiveRule(cells) ==
    \A i \in 1..Len(cells) :
        IsDayCell(cells[i]) =>
            (cells[i].isInactive <=>
                (CellDay(cells[i]) > ScreenToday \/ CellDay(cells[i]) < InstallDay))

InstallDayAndTodayActive(cells) ==
    \A i \in 1..Len(cells) :
        (IsDayCell(cells[i]) /\ CellDay(cells[i]) \in {InstallDay, ScreenToday})
            => ~cells[i].isInactive

\* C6: with at least one record, a day cell is inactive exactly when it lies
\* after today or before the day of the earliest record of all records; the
\* install day itself and today are not inactive.
C6_InactiveRule ==
    (mounted /\ Len(logs) > 0) =>
        (InactiveRule(Cells) /\ InstallDayAndTodayActive(Cells))

\* the first half of C6 alone
C6_InactiveIff == (mounted /\ Len(logs) > 0) => InactiveRule(Cells)

OnlyTodayActive(cells) ==
    \A i \in 1..Len(cells) :
        IsDayCell(cells[i]) =>
            (cells[i].isInactive <=> CellDay(cells[i]) # ScreenToday)

ActiveDayStarts(cells) ==
    {cells[i].dayStartMs :
        i \in {j \in 1..Len(cells) : IsDayCell(cells[j]) /\ ~cells[j].isInactive}}

\* the records of the current filter on the local day of the selected cell
SelectedDayIds ==
    {FilteredLogs[j].id :
        j \in {k \in 1..Len(FilteredLogs) :
                  LocalDayNumber(FilteredLogs[k].createdAt) = LocalDayNumber(selectedDayMs)}}

DayListIs(list, ids, sel) ==
    /\ {list[i].id : i \in 1..Len(list)} = ids
    /\ Len(list) = Cardinality(ids)
    /\ \A i \in 1..Len(list) : \A j \in i..Len(list) :
          list[i].createdAt >= list[j].createdAt
    /\ \A i \in 1..Len(list) :
          /\ list[i].createdAt >= startOfDayMs(sel)
          /\ list[i].createdAt < endOfDayMs(sel)

DayListExact == DayListIs(SelectedDayLogs, SelectedDayIds, selectedDayMs)

\* C8: the modal opens only from a day cell that is not inactive, and while it
\* is open the day list is exactly the records of the current filter on the
\* selected cell's day, newest first.
C8_DayModal ==
    /\ [][(~dayModalOpen /\ dayModalOpen') => (selectedDayMs' \in ActiveDayStarts(Cells))]_vars
    /\ [](dayModalOpen => DayListExact)

\* the modal is open on a day that holds some but not all filtered records
C8_Witness ==
    /\ dayModalOpen
    /\ Len(SelectedDayLogs) >= 1
    /\ Len(SelectedDayLogs) < Len(FilteredLogs)

(***************************************************************************)
(* Give-in counts of the month view.                                       *)
(***************************************************************************)
\* the filtered give-in records whose local date lies in the shown month
MonthGiveIns ==
    {i \in 1..Len(FilteredLogs) :
        /\ FilteredLogs[i].didResist # 1
        /\ LocalDate(FilteredLogs[i].createdAt).y = ShownYM.y
        /\ LocalDate(FilteredLogs[i].createdAt).m = ShownYM.m}

\* the filtered give-in records with createdAt in [monthStart, monthEnd)
WindowGiveIns ==
    LET shown == shownMonth(now, monthOffset)
    IN  {i \in 1..Len(FilteredLogs) :
            /\ FilteredLogs[i].didResist # 1
            /\ FilteredLogs[i].createdAt >= startOfMonthMs(shown)
            /\ FilteredLogs[i].createdAt < endOfMonthMs(shown)}

RECURSIVE SumCounts(_)
SumCounts(cells) ==
    IF cells = <<>> THEN 0
    ELSE (IF IsDayCell(Head(cells)) THEN Head(cells).count ELSE 0) + SumCounts(Tail(cells))

MonthCounts(cells) ==
    /\ SumCounts(cells) = Cardinality(WindowGiveIns)
    /\ WindowGiveIns = MonthGiveIns
    /\ \A i \in 1..Len(cells) :
          IsDayCell(cells[i]) =>
              cells[i].count =
                  Cardinality({j \in MonthGiveIns :
                      LocalDayNumber(FilteredLogs[j].createdAt) = CellDay(cells[i])})

\* C9: the per-day give-in counts of the month view sum to the number of
\* filtered records with didResist # 1 and createdAt in [monthStart, monthEnd);
\* each cell counts exactly the records of its own day.
C9_MonthCounts == mounted => MonthCounts(Cells)

\* a habit tab is active, one give-in is counted and another lies outside the month
C9_Witness ==
    /\ mounted
    /\ activeTab # Overall
    /\ SumCounts(Cells) >= 1
    /\ \E i \in 1..Len(FilteredLogs) :
          FilteredLogs[i].didResist # 1 /\ i \notin MonthGiveIns

(***************************************************************************)
(* Weekly rankings.                                                        *)
(***************************************************************************)
\* the filtered records on or after the Monday of the clock's week
WeekRecords ==
    {i \in 1..Len(FilteredLogs) :
        LocalDayNumber(FilteredLogs[i].createdAt) >= Today - MondayAnchored(Today)}

FieldValues(field) == {Trim(FilteredLogs[i][field]) : i \in WeekRecords} \ {<<>>}

RankingOK(top, field) ==
    /\ Len(top) = IF Cardinality(FieldValues(field)) < TopCount
                  THEN Cardinality(FieldValues(field)) ELSE TopCount
    /\ \A i \in 1..Len(top) : \A j \in i..Len(top) : top[i].count >= top[j].count
    /\ \A i \in 1..Len(top) :
          /\ top[i].name \in FieldValues(field)
          /\ top[i].count =
                Cardinality({j \in WeekRecords : Trim(FilteredLogs[j][field]) = top[i].name})

\* C10: each ranking has min(3, distinct non-empty trimmed values of the week)
\* entries, with non-increasing counts, each the number of week records that
\* carry the value.
C10_Rankings ==
    mounted =>
        /\ RankingOK(Data.topCues, "cueName")
        /\ RankingOK(Data.topLocations, "locationName")
        /\ RankingOK(Data.topHabits, "habitName")

\* four distinct locations this week, three of them listed
C10_Witness ==
    /\ mounted
    /\ Cardinality(FieldValues("locationName")) = 4
    /\ Len(Data.topLocations) = 3

(***************************************************************************)
(* Ties in the rankings.                                                   *)
(***************************************************************************)
\* the number of week records that carry value v in the field
CountOf(field, v) ==
    Cardinality({j \in WeekRecords : Trim(FilteredLogs[j][field]) = v})

\* the position, in the given order, of the first week record that carries v
FirstSeen(field, v) ==
    CHOOSE j \in WeekRecords :
        /\ Trim(FilteredLogs[j][field]) = v
        /\ \A k \in WeekRecords : Trim(FilteredLogs[k][field]) = v => j <= k

\* a value of equal count that was seen earlier is listed, and listed earlier
TieOrderOK(top, field) ==
    \A i \in 1..Len(top) : \A v \in FieldValues(field) \ {top[i].name} :
        (/\ CountOf(field, v) = top[i].count
         /\ FirstSeen(field, v) < FirstSeen(field, top[i].name))
            => \E j \in 1..(i - 1) : top[j].name = v

\* the cue values of all records, and the first position of each
CueValues == {Trim(logs[i].cueName) : i \in 1..Len(logs)} \ {<<>>}

CueCount(v) == Cardinality({j \in 1..Len(logs) : Trim(logs[j].cueName) = v})

CueFirstSeen(v) ==
    CHOOSE j \in 1..Len(logs) :
        /\ Trim(logs[j].cueName) = v
        /\ \A k \in 1..Len(logs) : Trim(logs[k].cueName) = v => j <= k

\* the single top cue is the earliest seen of the values with the greatest count
TopCueOK(top) ==
    IF CueValues = {} THEN top.topCue = NullStr /\ top.topCueCount = 0
    ELSE /\ top.topCue \in CueValues
         /\ top.topCueCount = CueCount(top.topCue)
         /\ \A v \in CueValues \ {top.topCue} :
               \/ CueCount(v) < top.topCueCount
               \/ CueCount(v) = top.topCueCount /\ CueFirstSeen(top.topCue) < CueFirstSeen(v)

\* C11: values of equal count are listed in the order in which they were first
\* met while scanning the records in their given order, and when the list is
\* cut the tied value met later is the one left out.
C11_TieOrder ==
    mounted =>
        /\ TieOrderOK(Data.topCues, "cueName")
        /\ TieOrderOK(Data.topLocations, "locationName")
        /\ TieOrderOK(Data.topHabits, "habitName")
        /\ TopCueOK(topCue(logs))

\* four locations once each: the three met first are listed, out of
\* alphabetical order, and the one met last is left out
C11_Witness ==
    /\ mounted
    /\ Cardinality(FieldValues("locationName")) = 4
    /\ \A v \in FieldValues("locationName") : CountOf("locationName", v) = 1
    /\ Len(Data.topLocations) = 3
    /\ StrLess(Data.topLocations[2].name, Data.topLocations[1].name)
    /\ \E v \in FieldValues("locationName") :
          /\ \A i \in 1..3 : Data.topLocations[i].name # v
          /\ \A i \in 1..3 : FirstSeen("locationName", Data.topLocations[i].name)
                                  < FirstSeen("locationName", v)

(***************************************************************************)
(* Records without a cue or a location.                                    *)
(***************************************************************************)
\* the counts of a field over the week's records, before sorting and cutting
WeekCounts(field) == fieldCounts(weekLogs(FilteredLogs, now), field)

RECURSIVE SumValues(_)
SumValues(m) == IF m = <<>> THEN 0 ELSE Head(m).v + SumValues(Tail(m))

\* the week records that have a value in the field
WithValue(field) == {j \in WeekRecords : Trim(FilteredLogs[j][field]) # <<>>}

NoEmptyEntry(field) ==
    /\ \A i \in 1..Len(WeekCounts(field)) :
          /\ WeekCounts(field)[i].k \in FieldValues(field)
          /\ WeekCounts(field)[i].k \notin {<<>>, NullStr}
          /\ WeekCounts(field)[i].v >= 1
    /\ SumValues(WeekCounts(field)) = Cardinality(WithValue(field))
    /\ \A i \in 1..Len(topN(WeekCounts(field))) :
          topN(WeekCounts(field))[i].name \in FieldValues(field)

\* C12: a record without a cue (or location) adds to no entry of the cue (or
\* location) ranking; no entry has an empty or null name, and the counts
\* before the cut sum to the number of week records that have a value.
C12_NoValueNoEntry ==
    /\ NoEmptyEntry("cueName")
    /\ NoEmptyEntry("locationName")

\* this week holds a record with a cue and no location, and a record with a
\* location and no cue
C12_Witness ==
    /\ \E j \in WeekRecords :
          FilteredLogs[j].cueName = NullStr /\ FilteredLogs[j].locationName # NullStr
    /\ \E j \in WeekRecords :
          FilteredLogs[j].cueName # NullStr /\ FilteredLogs[j].locationName = NullStr
    /\ SumValues(WeekCounts("cueName")) = 1
    /\ SumValues(WeekCounts("locationName")) = 1

(***************************************************************************)
(* The habit filters.                                                      *)
(***************************************************************************)
\* the positions of the records of ls whose trimmed habit name is f
Matching(ls, f) == {i \in 1..Len(ls) : Trim(ls[i].habitName) = f}

\* out holds exactly the matching records of ls, in the order they have in ls
FilterIs(out, ls, f) ==
    /\ Len(out) = Cardinality(Matching(ls, f))
    /\ \A k \in 1..Len(out) :
          out[k] = ls[CHOOSE i \in Matching(ls, f) :
                         Cardinality({j \in Matching(ls, f) : j <= i}) = k]

\* C13: with the all-habits value the filter returns the list unchanged;
\* otherwise it returns exactly the records whose trimmed habit name equals
\* the filter, case-sensitively, in their original relative order.
C13_HabitFilter ==
    /\ activeTab = Overall => FilteredLogs = logs
    /\ activeTab # Overall => FilterIs(FilteredLogs, logs, activeTab)
    /\ selectedHabit = NullStr => StatsLogs = logs
    /\ selectedHabit # NullStr => FilterIs(StatsLogs, logs, selectedHabit)

\* three records A, a, A (a custom habit that differs by case only): both
\* screens filter by A and keep the two A records in their order
C13_Witness ==
    /\ Len(logs) = 3
    /\ logs[1].habitName = <<"A">>
    /\ logs[2].habitName = <<"a">>
    /\ logs[3].habitName = <<"A">>
    /\ activeTab = <<"A">>
    /\ selectedHabit = <<"A">>
    /\ FilteredLogs = <<logs[1], logs[3]>>
    /\ StatsLogs = <<logs[1], logs[3]>>

(***************************************************************************)
(* The date utilities, stated on local day numbers and local hours.        *)
(***************************************************************************)
\* the instants from the clock's reading up to the next sampled reading
Instants == now..(now + SampleStep - 1)

WeekStartOK(d) ==
    LET w == startOfWeekMs(d)
    IN  /\ MondayAnchored(LocalDayNumber(w)) = 0
        /\ LocalHours(w) % HoursPerDay = 0
        /\ w <= d
        /\ LocalDayNumber(d) - LocalDayNumber(w) \in 0..6

\* C14: for every instant d, startOfWeek(d) is a Monday at local midnight, it
\* is not after d, and d lies less than 7 calendar days after it.
C14_StartOfWeek == \A d \in Instants : WeekStartOK(d)

\* a Sunday after a change of the offset, in a week that began before it, on
\* a mounted screen with a record of this week
C14_Witness ==
    /\ mounted
    /\ weekLogs(logs, now) # <<>>
    /\ getDay(now) = 0
    /\ TzOffset(tz, now) # TzOffset(tz, startOfWeekMs(now))
    /\ now - startOfWeekMs(now) > 6 * HoursPerDay

\* distances, in hours, between the instants that are compared: within a
\* day, a day apart, and from January 11 to November 1 and from January 12
\* to December 1 of 2024
PairOffsets ==
    {1, HoursPerDay - 1, HoursPerDay, HoursPerDay + 1, 295 * HoursPerDay, 324 * HoursPerDay}

\* the instants for which the offsets of the zones are as stated
ZoneValid(t) == t >= 19659 * HoursPerDay + 1 /\ t < 20177 * HoursPerDay + 1

DayUtilitiesAgree(s, t) ==
    /\ (dayKey(s) = dayKey(t)) <=> (startOfDayMs(s) = startOfDayMs(t))
    /\ (dayKey(s) = dayKey(t)) <=> (LocalDayNumber(s) = LocalDayNumber(t))

DayBoundsOK(t) ==
    /\ dayKey(startOfDayMs(t)) = dayKey(t)
    /\ startOfDayMs(startOfDayMs(t)) = startOfDayMs(t)
    /\ startOfDayMs(t) <= t
    /\ t < endOfDayMs(t)
    /\ LocalDayNumber(endOfDayMs(t)) = LocalDayNumber(t) + 1
    /\ startOfDayMs(endOfDayMs(t)) = endOfDayMs(t)

\* C15: two instants have the same day key exactly when they have the same
\* start of day; the start of a day has the day's key; startOfDay is
\* idempotent; startOfDay(t) <= t < endOfDay(t), and endOfDay(t) is the start
\* of the next calendar day.
C15_DayUtilities ==
    \A t \in Instants :
        /\ DayBoundsOK(t)
        /\ \A k \in PairOffsets : ZoneValid(t + k) => DayUtilitiesAgree(t + k, t)

\* the 23-hour day: the screen was mounted and a record was saved after the
\* change of the offset; the day's start and end are 23 hours apart
C15_Witness ==
    /\ mounted
    /\ logs # <<>>
    /\ endOfDayMs(now) - startOfDayMs(now) = HoursPerDay - 1
    /\ TzOffset(tz, now) # TzOffset(tz, startOfDayMs(now))
    /\ todayStartMs = startOfDayMs(now)
    /\ dayKey(logs[1].createdAt) = dayKey(todayStartMs)

(***************************************************************************)
(* The stored records.                                                     *)
(***************************************************************************)
\* every record of before is a record of after, with the same createdAt
Kept(before, after) ==
    \A i \in 1..Len(before) : \E j \in 1..Len(after) :
        after[j].id = before[i].id /\ after[j].createdAt = before[i].createdAt

\* C16: no operation of the data layer removes a stored record or changes its
\* createdAt, in the table and in the list held in memory.
C16_AppendOnly == [][Kept(dbLogs, dbLogs') /\ Kept(logs, logs')]_vars

(***************************************************************************)
(* The Log screen: count and didResist.                                    *)
(***************************************************************************)
\* C17: on the Log screen the count is 0 only while didResist is true, and
\* every record saved through the screen with count 0 has didResist = 1.
C17_NoneOnlyWhenResisted ==
    /\ count = 0 => didResist
    /\ \A i \in 1..Len(submitted) : submitted[i].count = 0 => submitted[i].didResist
    /\ \A i \in 1..Len(logs) : logs[i].count = 0 => logs[i].didResist = 1

\* a record saved with "None" while resisted, and the switch turned on again
\* and "None" picked anew
C17_Witness ==
    /\ \E i \in 1..Len(logs) : logs[i].count = 0 /\ logs[i].didResist = 1
    /\ \E i \in 1..Len(logs) : logs[i].count = 10 /\ logs[i].didResist = 0
    /\ count = 0
    /\ didResist

(***************************************************************************)
(* The numbers stored by addLog.                                           *)
(***************************************************************************)
\* the number of lo..hi nearest to x
Nearest(lo, hi, x) ==
    CHOOSE v \in lo..hi : \A w \in lo..hi :
        (IF v < x THEN x - v ELSE v - x) <= (IF w < x THEN x - w ELSE w - x)

\* the row holds the clamped value of the input in
StoredAs(row, in) ==
    /\ row.count \in 0..10
    /\ row.intensity = NULL \/ row.intensity \in 1..10
    /\ row.didResist \in {0, 1}
    /\ row.count = IF "count" \in DOMAIN in THEN Nearest(0, 10, in.count) ELSE 1
    /\ row.intensity = IF "intensity" \in DOMAIN in
                       THEN Nearest(1, 10, in.intensity) ELSE NULL
    /\ (row.didResist = 1) <=> in.didResist

\* C18: for every integer intensity and count of the input, given or not,
\* the stored record has count in 0..10 and intensity absent or in 1..10:
\* out-of-range numbers go to the nearest bound, an absent intensity stays
\* absent, an absent count becomes 1, and didResist is stored as 0 or 1.
C18_StoredRanges ==
    /\ \A i \in 1..Len(dbLogs) : StoredAs(dbLogs[i], submitted[1])
    /\ \A i \in 1..Len(logs) : StoredAs(logs[i], submitted[1])

\* a count above the range and an intensity below it, stored at the bounds
C18_Witness ==
    /\ Len(logs) = 1
    /\ "count" \in DOMAIN submitted[1]
    /\ "intensity" \in DOMAIN submitted[1]
    /\ submitted[1].count = 12
    /\ submitted[1].intensity = 0 - 1
    /\ logs[1].count = 10
    /\ logs[1].intensity = 1

(***************************************************************************)
(* Degenerate inputs: no record, none in the week, none in the month, none *)
(* on the selected day.                                                    *)
(***************************************************************************)
\* the records counted by the Home screen whose local day is d or later
StatsSince(d) ==
    {i \in 1..Len(StatsLogs) : LocalDayNumber(StatsLogs[i].createdAt) >= d}

\* the filtered records of the selected local day
SelectedDayRecords ==
    {i \in 1..Len(FilteredLogs) :
        /\ selectedDayMs # NULL
        /\ LocalDayNumber(FilteredLogs[i].createdAt) = LocalDayNumber(selectedDayMs)}

NumberedCells(cells) ==
    \A i \in 1..Len(cells) :
        cells[i].dayStartMs # NULL => cells[i].count # NULL /\ cells[i].count >= 0

ZeroCells(cells) ==
    \A i \in 1..Len(cells) : cells[i].dayStartMs # NULL => cells[i].count = 0

\* C19: with no record, or none in the week, the month or the selected day,
\* the rankings are empty lists, the streaks and the today and week counts
\* are 0, every day cell of the month has count 0 (a number, never null),
\* and the day list is empty.
C19_EmptyResults ==
    /\ WeekRecords = {} =>
          /\ Data.topCues = <<>>
          /\ Data.topLocations = <<>>
          /\ Data.topHabits = <<>>
    /\ QualifyingDays(StatsLogs) = {} =>
          HomeStats.currentStreak = 0 /\ HomeStats.bestStreak = 0
    /\ StatsSince(Today) = {} =>
          HomeStats.todayLogs = 0 /\ HomeStats.todayResists = 0
    /\ StatsSince(Today - MondayAnchored(Today)) = {} =>
          HomeStats.weekLogs = 0 /\ HomeStats.weekResists = 0
    /\ mounted => NumberedCells(Cells)
    /\ mounted /\ MonthGiveIns = {} => ZeroCells(Cells)
    /\ SelectedDayRecords = {} => SelectedDayLogs = <<>>

\* one resisted record lies in last week and last month; the shown month is
\* the current one and the modal is open on a day without records
C19_Witness ==
    /\ mounted
    /\ Len(logs) = 1
    /\ logs[1].didResist = 1
    /\ monthOffset = 0
    /\ dayModalOpen
    /\ selectedDayMs # NULL
    /\ WeekRecords = {}
    /\ MonthGiveIns = {}
    /\ StatsSince(Today) = {}
    /\ LocalDate(logs[1].createdAt).m # LocalDate(now).m
    /\ SelectedDayLogs = <<>>
    /\ \E i \in 1..Len(Cells) : Cells[i].dayStartMs # NULL /\ Cells[i].count = 0

(***************************************************************************)
(* The displayed views after a change of the records, the tab or the month.*)
(***************************************************************************)
\* the step is the completion of addLog, a change of tab or a change of month
ViewChange ==
    \/ logs' # logs
    \/ activeTab' # activeTab
    \/ monthOffset' # monthOffset

\* Each memo holds the value of its last run, made with the clock reading
\* `at`; SameX compares it with the value for the clock reading t.
SameCells(fl, offset, install, today, hasAny, at, t) ==
    calendarCells(fl, offset, install, today, hasAny, at)
        = calendarCells(fl, offset, install, today, hasAny, t)

SameData(fl, at, t) == data(fl, at) = data(fl, t)

SameStats(ls, at, t) == stats(ls, at) = stats(ls, t)

CalendarCurrent ==
    SameCells(FilteredLogs', monthOffset', installDayStartMs(logs', todayStartMs'),
              todayStartMs', hasAnyLogs(logs'), calendarAt', now')

\* C20: after the completion of addLog, a change of tab or a change of month
\* offset, the displayed calendar, rankings, day list and Home statistics are
\* the aggregation functions applied to the current records under the current
\* filter and month offset (the day list reads no clock and is a function of
\* the current state in every state).
C20_ViewsCurrent ==
    [][ViewChange /\ mounted' =>
            /\ CalendarCurrent
            /\ SameData(FilteredLogs', dataAt', now')
            /\ SameStats(logsForStats(logs', selectedHabit'), statsAt', now')]_vars

(***************************************************************************)
(* The displayed month and the month navigation.                           *)
(***************************************************************************)
\* the months counted from year 0 of the local date of t
MonthIndex(t) == LocalDate(t).y * 12 + (LocalDate(t).m - 1)

\* the month shown by the calendar memo: its base is the clock reading of
\* its last run
ShownMonthOK(base, offset) ==
    LET shown == shownMonth(base, offset)
    IN  /\ MonthIndex(shown) = MonthIndex(base) + offset
        /\ LocalDate(shown).d = 1
        /\ startOfDayMs(shown) = shown
        /\ endOfMonthMs(shownMonth(base, offset - 1)) = startOfMonthMs(shown)

OffsetStep ==
    (mounted /\ mounted' /\ monthOffset' # monthOffset) =>
        /\ monthOffset' \in {monthOffset - 1, monthOffset + 1}
        /\ calendarAt' = now'

C22_ExportRuns == alert # "Export not available"

(***************************************************************************)
(* What the auth provider is given.                                        *)
(***************************************************************************)
\* the call carries the entered email, password and display name and nothing else
IdentityOnly(m) ==
    CASE m.op \in {"createUserWithEmailAndPassword", "signInWithEmailAndPassword"} ->
            /\ m.email = toLowerCase(Trim(credentials.email))
            /\ m.password = credentials.password
            /\ m.displayName = <<>>
      [] m.op = "updateProfile" ->
            /\ m.email = <<>>
            /\ m.password = <<>>
            /\ m.displayName = Trim(credentials.displayName)
      [] m.op = "signOut" ->
            /\ m.email = <<>>
            /\ m.password = <<>>
            /\ m.displayName = <<>>
      [] OTHER -> FALSE

\* C23: every call that signUp, login and signOut make to the auth provider
\* is a function of the entered email, password and display name alone, so
\* runs that differ only in the stored habit data send the same calls.
C23_IdentityOnly ==
    [][sent' # sent =>
          /\ Len(sent') > Len(sent)
          /\ SubSeq(sent', 1, Len(sent)) = sent
          /\ \A i \in (Len(sent) + 1)..Len(sent') : IdentityOnly(sent'[i])]_vars

\* a record and a custom habit are stored, and a sign-up has sent both calls
C23_Witness ==
    /\ Len(logs) = 1
    /\ Len(habits) > Len(HabitNames)
    /\ Len(sent) = 2
    /\ sent[1].op = "createUserWithEmailAndPassword"
    /\ sent[1].email = <<"a", "@", "b">>
    /\ sent[2].op = "updateProfile"
    /\ sent[2].displayName = <<"B", "o">>

(***************************************************************************)
(* Best streak against current streak.                                     *)
(***************************************************************************)
\* C24: the best streak is at least the current streak, and it is 0 exactly
\* when no day holds a record with didResist = 1.
C24_BestAtLeastCurrent ==
    /\ HomeStats.bestStreak >= HomeStats.currentStreak
    /\ HomeStats.bestStreak = 0 <=> QualifyingDays(StatsLogs) = {}

(***************************************************************************)
(* The calendar after the local date has advanced since mount.             *)
(***************************************************************************)
\* the local days that hold at least one record
RecordDays == {LocalDayNumber(logs[i].createdAt) : i \in 1..Len(logs)}

RecordDaysActive(cells) ==
    \A i \in 1..Len(cells) :
        (IsDayCell(cells[i]) /\ CellDay(cells[i]) \in RecordDays) => ~cells[i].isInactive

TodayFlagOK(cells) ==
    \A i \in 1..Len(cells) :
        IsDayCell(cells[i]) => (cells[i].isToday <=> CellDay(cells[i]) = Today)

\* C25: while the Analytics screen is mounted, also after midnight has passed
\* since mount and a record was logged on the new day, every day of the
\* Overall view that holds a record is an active cell, and the cell flagged
\* isToday is the current local day.
C25_CalendarFollowsClock ==
    (mounted /\ calendarAt = now /\ activeTab = Overall) =>
        (RecordDaysActive(Cells) /\ TodayFlagOK(Cells))

(***************************************************************************)
(* The count of a cell against the day list of the cell.                   *)
(***************************************************************************)
\* the number of give-in records in the day list resolved for day start ms
DayListGiveIns(fl, ms) ==
    LET GaveIn(l) == l.didResist # 1
    IN  Len(SelectSeq(selectedDayLogs(fl, ms), GaveIn))

CountsMatchDayLists(cells, fl) ==
    \A i \in 1..Len(cells) :
        (IsDayCell(cells[i]) /\ ~cells[i].isInactive) =>
            cells[i].count = DayListGiveIns(fl, cells[i].dayStartMs)

\* C26: for every active cell and every tab, the give-in count of the cell is
\* the number of records with didResist # 1 in the day list resolved for the
\* cell.
C26_CountIsDayList == mounted => CountsMatchDayLists(Cells, FilteredLogs)

\* a habit tab is active and an active cell counts one give-in of a day list
\* of two records
C26_Witness ==
    /\ mounted
    /\ activeTab # Overall
    /\ \E i \in 1..Len(Cells) :
          /\ IsDayCell(Cells[i])
          /\ ~Cells[i].isInactive
          /\ Cells[i].count = 1
          /\ Len(selectedDayLogs(FilteredLogs, Cells[i].dayStartMs)) = 2

(***************************************************************************)
(* The selection of habits after onboarding.                               *)
(***************************************************************************)
\* C27: once onboarding has completed, neither the stored selection of habits
\* nor the selectedHabits of the state is ever empty, across toggles and
\* additions of custom habits in ManageList.
C27_NeverEmpty ==
    hasOnboarded => (selectedHabits # <<>> /\ userHabits # <<>>)

\* the selectedHabits of the state alone
C27_StateNeverEmpty == hasOnboarded => selectedHabits # <<>>

\* both, while no call of setSelectedHabits is in flight
C27_NeverEmptyAtRest ==
    (hasOnboarded /\ calls = <<>>) => (selectedHabits # <<>> /\ userHabits # <<>>)


\* C28: after two presses of toggleSelected on different rows that overlap
\* (the second comes before the call of the first is over), once no call is
\* in flight the table and the selection in memory hold the selection with
\* both rows flipped.
C28_BothToggles ==
    (pressed.n = 2 /\ calls = <<>>)
        => /\ {selectedHabits[i] : i \in 1..Len(selectedHabits)} = pressed.want
           /\ {userHabits[i] : i \in 1..Len(userHabits)} = pressed.want

\* two rows added by overlapping presses, and a selection without one of them
C28_LostToggle ==
    /\ pressed.n = 2
    /\ calls = <<>>
    /\ pressed.want = {1, 2, 3}
    /\ selectedHabits = userHabits
    /\ Len(selectedHabits) = 2

\* no id occurs twice in the list
NoDuplicate(list) ==
    \A i, j \in 1..Len(list) : list[i] = list[j] => i = j

\* the place of an id in a list that holds it
PlaceIn(list, id) == CHOOSE i \in 1..Len(list) : list[i] = id

\* out holds the items, each once; those of the recent list come first, in
\* the order of the recent list; the others follow in the order of items
RecentFirst(out, items, recentIds) ==
    /\ Len(out) = Len(items)
    /\ NoDuplicate(out)
    /\ \A i \in 1..Len(items) : Contains(out, items[i])
    /\ \A i, j \in 1..Len(out) :
          i < j =>
             IF Contains(recentIds, out[j])
             THEN /\ Contains(recentIds, out[i])
                  /\ PlaceIn(recentIds, out[i]) < PlaceIn(recentIds, out[j])
             ELSE \/ Contains(recentIds, out[i])
                  \/ PlaceIn(items, out[i]) < PlaceIn(items, out[j])

\* the recent list holds no id twice and at most 25 ids
RecentShape(recentIds) ==
    /\ NoDuplicate(recentIds)
    /\ Len(recentIds) <= 25

\* C29: a recent list kept by bumpRecent holds no id twice, at most 25 ids,
\* and the id saved last in front; applyRecentOrdering of an item list with
\* unique ids is a permutation of it, with the items of the recent list first
\* in the order of that list and the others after them in their own order.
C29_RecentOrdering ==
    /\ RecentShape(recentHabitIds)
    /\ habitId # NULL => (recentHabitIds # <<>> /\ recentHabitIds[1] = habitId)
    /\ RecentFirst(applyRecentOrdering(selectedHabits, recentHabitIds),
                   selectedHabits, recentHabitIds)

\* a full recent list that has lost id 1, reordering items that hold id 1
C29_Witness ==
    /\ Len(recentHabitIds) = MaxRecent
    /\ recentHabitIds[1] = 2
    /\ recentHabitIds[2] = MaxRecent + ExtraIds
    /\ ~Contains(recentHabitIds, 1)
    /\ Contains(selectedHabits, 1)
    /\ applyRecentOrdering(selectedHabits, recentHabitIds) # selectedHabits

\* the same ordering and shape on the Log screen, for the seeded habits
C29_OnLogScreen ==
    /\ RecentShape(recentHabitIds)
    /\ RecentFirst(applyRecentOrdering(selectedHabits, recentHabitIds),
                   selectedHabits, recentHabitIds)

\* the call of addLog made by onSave ends without new logs in DataProvider
AddLogFailed == submitted # <<>> /\ submitted' = <<>> /\ logs' = logs

\* a step of the Log screen without a habit that sets a message
MessageWithoutHabit ==
    habitId = NULL /\ ~saving /\ errorMsg' # errorMsg /\ errorMsg' # ""

\* C30: when the call of addLog made by onSave fails, the habit, the cue, the
\* location, the count, didResist, the intensity, the notes and the recent
\* list stay as they are, the message is "Could not save." and saving is
\* false again; without a habit, onSave sets "Select a habit." and makes no
\* call of addLog.
C30_FailedSave ==
    /\ [](submitted # <<>> => submitted[1].habitId # NULL)
    /\ [][/\ AddLogFailed =>
               /\ UNCHANGED <<habitId, cueId, locationId, count, didResist,
                              intensity, notes, recentHabitIds>>
               /\ errorMsg' = "Could not save."
               /\ ~saving'
          /\ MessageWithoutHabit =>
               /\ errorMsg' = "Select a habit."
               /\ UNCHANGED <<saving, submitted, dbLogs, logs>>]_vars

\* a failed save has left a form that is not the default one
C30_Witness ==
    /\ errorMsg = "Could not save."
    /\ ~saving
    /\ cueId # NULL
    /\ locationId # NULL
    /\ intensity # NULL
    /\ notes # <<>>
    /\ didResist
    /\ count = 0
    /\ logs = <<>>
    /\ dbLogs # <<>>

\* onSave without a habit has set its message
C30_NoHabit ==
    /\ errorMsg = "Select a habit."
    /\ habitId = NULL
    /\ ~saving
    /\ dbLogs = <<>>

====
